---- MODULE Spec2Model ----
(***************************************************************************)
(* Streaming endpoints of the RipTide Python SDK                           *)
(* (sdk/python/riptide_sdk/endpoints/streaming.py): the NDJSON, SSE and    *)
(* WebSocket adapters, modelled as one generator/coroutine per call.       *)
(*                                                                         *)
(* Text is modelled character by character: a Python str is a sequence of  *)
(* one-character strings, and json.loads is a scanner over that sequence.  *)
(***************************************************************************)
EXTENDS Integers, Sequences, FiniteSets, TLC

(***************************************************************************)
(* Bounds of the model                                                     *)
(***************************************************************************)
\* lines the server may deliver in one HTTP response body
MaxLines == 4

\* messages the server may deliver on one WebSocket connection
MaxMessages == 3

\* the latest time the clock reaches
MaxClock == 2

\* WebSocket calls made on one client instance
MaxCalls == 2

\* spider_stream generators created on one RipTide client
MaxGenerators == 2

\* frames delivered, in total, to the streaming calls consumed side by side
MaxFrames == 3

(***************************************************************************)
(* Python values.  One record shape for every value, so that any two       *)
(* values can be compared: t is the type tag, n the number, s the text,    *)
(* a the list items, kv the dict (a function from key text to value).      *)
(***************************************************************************)
EmptyMap == [k \in {} |-> 0]

PyValue(tag, num, str, items, map) ==
    [t |-> tag, n |-> num, s |-> str, a |-> items, kv |-> map]

PyNone == PyValue("none", 0, <<>>, <<>>, EmptyMap)

PyInt(num) == PyValue("int", num, <<>>, <<>>, EmptyMap)

PyBool(b) == PyValue("bool", IF b THEN 1 ELSE 0, <<>>, <<>>, EmptyMap)

PyStr(str) == PyValue("str", 0, str, <<>>, EmptyMap)

PyList(items) == PyValue("list", 0, <<>>, items, EmptyMap)

PyDict(map) == PyValue("dict", 0, <<>>, <<>>, map)

\* dict.get(key, default); on a value that is no dict the call raises
\* AttributeError, which the callers of HasGet test first
HasGet(v) == v.t = "dict"

Get(v, key, default) == IF key \in DOMAIN v.kv THEN v.kv[key] ELSE default

\* truthiness of a value (`if not urls`, `if line.strip()`, `if on_message`)
Truthy(v) ==
    CASE v.t = "none" -> FALSE
      [] v.t = "int" -> v.n # 0
      [] v.t = "bool" -> v.n # 0
      [] v.t \in {"str", "bytes"} -> v.s # <<>>
      [] v.t = "list" -> v.a # <<>>
      [] v.t = "dict" -> DOMAIN v.kv # {}
      [] OTHER -> TRUE

(***************************************************************************)
(* str methods                                                             *)
(***************************************************************************)
\* the characters str.strip() removes
PyWhitespace == {" ", "\t", "\n", "\r", "\f"}

RECURSIVE lstrip(_)
lstrip(str) ==
    IF str # <<>> /\ Head(str) \in PyWhitespace THEN lstrip(Tail(str)) ELSE str

RECURSIVE rstrip(_)
rstrip(str) ==
    IF str # <<>> /\ str[Len(str)] \in PyWhitespace
    THEN rstrip(SubSeq(str, 1, Len(str) - 1))
    ELSE str

strip(str) == rstrip(lstrip(str))

startswith(str, prefix) ==
    Len(str) >= Len(prefix) /\ SubSeq(str, 1, Len(prefix)) = prefix

\* str[k:] with k counted from 0 as in Python
SliceFrom(str, k) == SubSeq(str, k + 1, Len(str))

\* sep.join(parts)
RECURSIVE join(_, _)
join(sep, parts) ==
    IF parts = <<>> THEN <<>>
    ELSE IF Len(parts) = 1 THEN parts[1]
    ELSE parts[1] \o sep \o join(sep, Tail(parts))

(***************************************************************************)
(* json.loads, as the scanner of the standard library works: positions     *)
(* are 1-based here, `end` is the position after the scanned value.  The   *)
(* scanner covers objects, arrays, strings without escapes, integers and   *)
(* the literals true, false, null.                                         *)
(***************************************************************************)
JsonWhitespace == {" ", "\t", "\n", "\r"}

Digits == {"0", "1", "2", "3", "4", "5", "6", "7", "8", "9"}

DigitValue(c) ==
    CASE c = "0" -> 0 [] c = "1" -> 1 [] c = "2" -> 2 [] c = "3" -> 3
      [] c = "4" -> 4 [] c = "5" -> 5 [] c = "6" -> 6 [] c = "7" -> 7
      [] c = "8" -> 8 [] c = "9" -> 9

\* characters a JSON string may not contain unescaped
ControlChars == {"\t", "\n", "\r", "\f"}

ScanOk(v, end) == [ok |-> TRUE, val |-> v, end |-> end, msg |-> ""]

ScanFail(msg, pos) == [ok |-> FALSE, val |-> PyNone, end |-> pos, msg |-> msg]

RECURSIVE skip_ws(_, _)
skip_ws(str, i) ==
    IF i <= Len(str) /\ str[i] \in JsonWhitespace THEN skip_ws(str, i + 1) ELSE i

HasAt(str, i, word) ==
    i + Len(word) - 1 <= Len(str) /\ SubSeq(str, i, i + Len(word) - 1) = word

\* i is the position after the opening quote; from is that of the quote
RECURSIVE scanstring(_, _, _)
scanstring(str, i, from) ==
    IF i > Len(str) THEN ScanFail("Unterminated string starting at", from)
    ELSE IF str[i] = "\"" THEN ScanOk(PyStr(SubSeq(str, from + 1, i - 1)), i + 1)
    ELSE IF str[i] \in ControlChars THEN ScanFail("Invalid control character at", i)
    ELSE scanstring(str, i + 1, from)

\* the digits of 0|[1-9][0-9]* starting at i: the position after them
RECURSIVE scan_digits(_, _)
scan_digits(str, i) ==
    IF i <= Len(str) /\ str[i] \in Digits THEN scan_digits(str, i + 1) ELSE i

RECURSIVE digits_value(_, _, _)
digits_value(str, i, end) ==
    IF i >= end THEN 0
    ELSE 10 * digits_value(str, i, end - 1) + DigitValue(str[end - 1])

\* -?(0|[1-9][0-9]*) at i; i is the position of the first character
scan_number(str, i) ==
    LET neg == str[i] = "-"
        d == IF neg THEN i + 1 ELSE i
    IN  IF d > Len(str) \/ str[d] \notin Digits THEN ScanFail("Expecting value", i)
        ELSE LET end == IF str[d] = "0" THEN d + 1 ELSE scan_digits(str, d)
                 v == digits_value(str, d, end)
             IN  ScanOk(PyInt(IF neg THEN 0 - v ELSE v), end)

RECURSIVE scan_once(_, _), object_members(_, _, _), array_items(_, _, _)

\* i is the position after `{`
JSONObject(str, i) ==
    LET j == skip_ws(str, i)
    IN  IF j <= Len(str) /\ str[j] = "}" THEN ScanOk(PyDict(EmptyMap), j + 1)
        ELSE IF j > Len(str) \/ str[j] # "\""
        THEN ScanFail("Expecting property name enclosed in double quotes", j)
        ELSE object_members(str, j, EmptyMap)

\* q is the position of the opening quote of the next key
object_members(str, q, acc) ==
    LET key == scanstring(str, q + 1, q)
    IN  IF ~key.ok THEN key
        ELSE
        LET c == skip_ws(str, key.end)
        IN  IF c > Len(str) \/ str[c] # ":"
            THEN ScanFail("Expecting ':' delimiter", c)
            ELSE
            LET v == scan_once(str, skip_ws(str, c + 1))
            IN  IF ~v.ok THEN v
                ELSE
                LET pairs == (key.val.s :> v.val) @@ acc
                    d == skip_ws(str, v.end)
                IN  IF d <= Len(str) /\ str[d] = "}"
                    THEN ScanOk(PyDict(pairs), d + 1)
                    ELSE IF d > Len(str) \/ str[d] # ","
                    THEN ScanFail("Expecting ',' delimiter", d)
                    ELSE
                    LET e == skip_ws(str, d + 1)
                    IN  IF e > Len(str) \/ str[e] # "\""
                        THEN ScanFail(
                            "Expecting property name enclosed in double quotes", e)
                        ELSE object_members(str, e, pairs)

\* i is the position after `[`
JSONArray(str, i) ==
    LET j == skip_ws(str, i)
    IN  IF j <= Len(str) /\ str[j] = "]" THEN ScanOk(PyList(<<>>), j + 1)
        ELSE array_items(str, j, <<>>)

\* i is the position of the next item
array_items(str, i, acc) ==
    LET v == scan_once(str, i)
    IN  IF ~v.ok THEN v
        ELSE
        LET items == Append(acc, v.val)
            d == skip_ws(str, v.end)
        IN  IF d <= Len(str) /\ str[d] = "]" THEN ScanOk(PyList(items), d + 1)
            ELSE IF d > Len(str) \/ str[d] # ","
            THEN ScanFail("Expecting ',' delimiter", d)
            ELSE array_items(str, skip_ws(str, d + 1), items)

scan_once(str, i) ==
    IF i > Len(str) THEN ScanFail("Expecting value", i)
    ELSE CASE str[i] = "\"" -> scanstring(str, i + 1, i)
           [] str[i] = "{" -> JSONObject(str, i + 1)
           [] str[i] = "[" -> JSONArray(str, i + 1)
           [] HasAt(str, i, <<"n", "u", "l", "l">>) -> ScanOk(PyNone, i + 4)
           [] HasAt(str, i, <<"t", "r", "u", "e">>) -> ScanOk(PyBool(TRUE), i + 4)
           [] HasAt(str, i, <<"f", "a", "l", "s", "e">>) ->
                ScanOk(PyBool(FALSE), i + 5)
           [] str[i] \in Digits \cup {"-"} -> scan_number(str, i)
           [] OTHER -> ScanFail("Expecting value", i)

\* JSONDecoder.decode after raw_decode returned r: only whitespace may follow
decode_end(str, r) ==
    IF ~r.ok THEN r
    ELSE IF skip_ws(str, r.end) <= Len(str)
    THEN ScanFail("Extra data", skip_ws(str, r.end))
    ELSE r

\* JSONDecodeError(msg, doc, pos): the line and the column of the 0-based pos
\* lineno = doc.count("\n", 0, pos) + 1
lineno(doc, pos) == Cardinality({k \in 1..pos : doc[k] = "\n"}) + 1

\* colno = pos - doc.rindex("\n", 0, pos), or pos + 1 on the first line
colno(doc, pos) ==
    IF \A k \in 1..pos : doc[k] # "\n" THEN pos + 1
    ELSE pos + 1 - (CHOOSE k \in 1..pos :
                        doc[k] = "\n" /\ \A j \in (k + 1)..pos : doc[j] # "\n")

\* the outcome of json.loads with the place of the failure in the text
located(doc, r) ==
    [ok |-> r.ok, val |-> r.val, end |-> r.end, msg |-> r.msg,
     lineno |-> lineno(doc, r.end - 1), colno |-> colno(doc, r.end - 1)]

\* json.loads(str): ok, or the JSONDecodeError with its message and position
loads(str) == located(str, decode_end(str, scan_once(str, skip_ws(str, 1))))

\* str(e) of a JSONDecodeError: "%s: line %d column %d (char %d)"
DecodeErrorText(r) ==
    <<r.msg, ": line ", ToString(r.lineno), " column ", ToString(r.colno),
      " (char ", ToString(r.end - 1), ")">>

(***************************************************************************)
(* bytes                                                                   *)
(***************************************************************************)
PyBytes(bytes) == PyValue("bytes", 0, bytes, <<>>, EmptyMap)

\* bytes.decode("utf-8"): the text, or UnicodeDecodeError
decode(bytes) ==
    IF \E i \in 1..Len(bytes) : bytes[i] = "0xFF"
    THEN [ok |-> FALSE, val |-> PyNone]
    ELSE [ok |-> TRUE, val |-> PyStr(bytes)]

(***************************************************************************)
(* Text constants of the code                                              *)
(***************************************************************************)
s_message_type == <<"m", "e", "s", "s", "a", "g", "e", "_", "t", "y", "p", "e">>

s_data == <<"d", "a", "t", "a">>

s_timestamp == <<"t", "i", "m", "e", "s", "t", "a", "m", "p">>

s_session_id == <<"s", "e", "s", "s", "i", "o", "n", "_", "i", "d">>

s_welcome == <<"w", "e", "l", "c", "o", "m", "e">>

s_message == <<"m", "e", "s", "s", "a", "g", "e">>

s_summary == <<"s", "u", "m", "m", "a", "r", "y">>

s_error == <<"e", "r", "r", "o", "r">>

s_raw == <<"r", "a", "w">>

s_crawl_result == <<"c", "r", "a", "w", "l", "_", "r", "e", "s", "u", "l", "t">>

s_search_result == <<"s", "e", "a", "r", "c", "h", "_", "r", "e", "s", "u", "l", "t">>

s_event_prefix == <<"e", "v", "e", "n", "t", ":">>

s_data_prefix == <<"d", "a", "t", "a", ":">>

s_urls == <<"u", "r", "l", "s">>

s_query == <<"q", "u", "e", "r", "y">>

s_limit == <<"l", "i", "m", "i", "t">>

s_request_type == <<"r", "e", "q", "u", "e", "s", "t", "_", "t", "y", "p", "e">>

s_crawl == <<"c", "r", "a", "w", "l">>

s_ping == <<"p", "i", "n", "g">>

s_status == <<"s", "t", "a", "t", "u", "s">>

s_success == <<"s", "u", "c", "c", "e", "s", "s">>

s_latency_ms == <<"l", "a", "t", "e", "n", "c", "y", "_", "m", "s">>

s_server_time == <<"s", "e", "r", "v", "e", "r", "_", "t", "i", "m", "e">>

(***************************************************************************)
(* The inputs: arguments of a call and what the server may deliver         *)
(***************************************************************************)
url_example ==
    <<"h", "t", "t", "p", "s", ":", "/", "/", "e", "x", "a", "m", "p", "l",
      "e", ".", "c", "o", "m">>

query_python == <<"p", "y", "t", "h", "o", "n">>

UrlLists == {PyList(<<>>), PyList(<<PyStr(url_example)>>)}

Queries == {PyStr(<<>>), PyStr(query_python)}

\* lines of an NDJSON response body
line_blank == <<>>

line_spaces == <<" ", " ">>

line_object == <<"{", "\"", "u", "r", "l", "\"", ":", " ", "1", "}">>

line_padded == <<" ", "{", "\"", "a", "\"", ":", "2", "}", " ">>

line_not_json == <<"n", "o", "t", " ", "j", "s", "o", "n">>

line_number == <<"7">>

NdjsonLines ==
    {line_blank, line_spaces, line_object, line_padded, line_not_json,
     line_number}

\* lines of an SSE response body
sse_blank == <<>>

sse_spaces == <<" ">>

sse_event_result == <<"e", "v", "e", "n", "t", ":", " ", "r", "e", "s", "u", "l", "t">>

sse_event_empty == <<"e", "v", "e", "n", "t", ":">>

sse_data_open == <<"d", "a", "t", "a", ":", " ", "{", "\"", "a", "\"", ":">>

sse_data_close == <<"d", "a", "t", "a", ":", " ", "1", "}">>

sse_data_number == <<" ", "d", "a", "t", "a", ":", "7", " ">>

sse_comment == <<":", " ", "p", "i", "n", "g">>

SseLines ==
    {sse_blank, sse_spaces, sse_event_result, sse_event_empty, sse_data_open,
     sse_data_close, sse_data_number, sse_comment}

\* WebSocket messages: text frames, and binary frames as bytes
ws_welcome ==
    <<"{", "\"", "m", "e", "s", "s", "a", "g", "e", "_", "t", "y", "p", "e",
      "\"", ":", "\"", "w", "e", "l", "c", "o", "m", "e", "\"", ",", "\"",
      "d", "a", "t", "a", "\"", ":", "{", "\"", "s", "e", "s", "s", "i",
      "o", "n", "_", "i", "d", "\"", ":", "\"", "a", "\"", "}", ",", "\"",
      "t", "i", "m", "e", "s", "t", "a", "m", "p", "\"", ":", "\"", "t",
      "0", "\"", "}">>

ws_result ==
    <<"{", "\"", "m", "e", "s", "s", "a", "g", "e", "_", "t", "y", "p", "e",
      "\"", ":", "\"", "r", "e", "s", "u", "l", "t", "\"", ",", "\"", "d",
      "a", "t", "a", "\"", ":", "{", "\"", "u", "r", "l", "\"", ":", "1",
      "}", "}">>

ws_summary ==
    <<"{", "\"", "m", "e", "s", "s", "a", "g", "e", "_", "t", "y", "p", "e",
      "\"", ":", "\"", "s", "u", "m", "m", "a", "r", "y", "\"", ",", "\"",
      "d", "a", "t", "a", "\"", ":", "{", "}", "}">>

ws_error ==
    <<"{", "\"", "m", "e", "s", "s", "a", "g", "e", "_", "t", "y", "p", "e",
      "\"", ":", "\"", "e", "r", "r", "o", "r", "\"", ",", "\"", "d", "a",
      "t", "a", "\"", ":", "{", "}", "}">>

ws_untyped == <<"{", "\"", "d", "a", "t", "a", "\"", ":", "{", "}", "}">>

ws_empty_type ==
    <<"{", "\"", "m", "e", "s", "s", "a", "g", "e", "_", "t", "y", "p", "e",
      "\"", ":", "\"", "\"", "}">>

ws_not_json == <<"i", "n", "v", "a", "l", "i", "d", " ", "j", "s", "o", "n", "{">>

ws_array == <<"[", "1", "]">>

ws_pong_a ==
    <<"{", "\"", "m", "e", "s", "s", "a", "g", "e", "_", "t", "y", "p", "e",
      "\"", ":", "\"", "p", "o", "n", "g", "\"", ",", "\"", "d", "a", "t",
      "a", "\"", ":", "{", "\"", "t", "i", "m", "e", "s", "t", "a", "m",
      "p", "\"", ":", "\"", "t", "1", "\"", ",", "\"", "s", "e", "s", "s",
      "i", "o", "n", "_", "i", "d", "\"", ":", "\"", "a", "\"", "}", "}">>

ws_pong_b ==
    <<"{", "\"", "m", "e", "s", "s", "a", "g", "e", "_", "t", "y", "p", "e",
      "\"", ":", "\"", "p", "o", "n", "g", "\"", ",", "\"", "d", "a", "t",
      "a", "\"", ":", "{", "\"", "t", "i", "m", "e", "s", "t", "a", "m",
      "p", "\"", ":", "\"", "t", "1", "\"", ",", "\"", "s", "e", "s", "s",
      "i", "o", "n", "_", "i", "d", "\"", ":", "\"", "b", "\"", "}", "}">>

ws_pong_bare ==
    <<"{", "\"", "m", "e", "s", "s", "a", "g", "e", "_", "t", "y", "p", "e",
      "\"", ":", "\"", "p", "o", "n", "g", "\"", "}">>

ws_status ==
    <<"{", "\"", "m", "e", "s", "s", "a", "g", "e", "_", "t", "y", "p", "e",
      "\"", ":", "\"", "s", "t", "a", "t", "u", "s", "\"", ",", "\"", "d",
      "a", "t", "a", "\"", ":", "{", "\"", "i", "s", "_", "h", "e", "a",
      "l", "t", "h", "y", "\"", ":", "t", "r", "u", "e", "}", "}">>

WsMessages ==
    {PyStr(ws_welcome), PyStr(ws_result), PyStr(ws_summary), PyStr(ws_error),
     PyStr(ws_untyped), PyStr(ws_empty_type), PyStr(ws_not_json),
     PyStr(ws_array), PyBytes(ws_summary), PyBytes(<<"0xFF">>)}

\* messages the server may deliver to ping_websocket / get_websocket_status
AuxMessages ==
    {PyStr(ws_welcome), PyStr(ws_pong_a), PyStr(ws_pong_b), PyStr(ws_pong_bare),
     PyStr(ws_status), PyStr(ws_not_json), PyStr(ws_array)}

\* what a failing on_message handler raises, besides returning normally
HandlerOutcomes == {"ok", "RuntimeError", "JSONDecodeError"}

\* status codes of the initial HTTP response
StatusCodes == {200, 204, 404}

\* bodies of an error response, as bytes; "0xFF" is a byte that is no UTF-8
ErrorBodies == {<<"n", "o">>, <<"0xFF">>}

\* str(e) of the failures the HTTP transport raises (all httpx.HTTPError)
HttpErrors == {<<"ConnectError">>, <<"ReadTimeout">>}

(***************************************************************************)
(* StreamingResult (models.py) and the exceptions (exceptions.py)          *)
(***************************************************************************)
StreamingResult(kind, payload, time) ==
    [event_type |-> kind, data |-> payload, timestamp |-> time]

NoResult == StreamingResult(PyNone, PyNone, PyNone)

\* an exception: its class, str(e) as pieces of text, and status_code
Exception(class, text, code) ==
    [type |-> class, message |-> text, status_code |-> code]

NoException == Exception("", <<>>, PyNone)

ValidationError(text) == Exception("ValidationError", text, PyNone)

StreamingError(text, code) == Exception("StreamingError", text, code)

(***************************************************************************)
(* RipTide (riptide_client): the headers of its requests session           *)
(***************************************************************************)
\* self.session.headers after RipTide(api_key=...): a default of
\* requests.Session and the Authorization header
SessionHeaders == ("Accept" :> "*/*") @@ ("Authorization" :> "Bearer key")

\* headers = {"Accept": "application/x-ndjson"}
StreamHeaders == "Accept" :> "application/x-ndjson"

(***************************************************************************)
(* State of one call                                                       *)
(***************************************************************************)
VARIABLES
    op,                    \* the entry point called
    urls,                  \* its urls argument
    query,                 \* its query argument
    on_message,            \* "None" or "callable"
    WEBSOCKETS_AVAILABLE,  \* whether `import websockets` succeeded
    pc,                    \* where the generator or coroutine stands
    connects,              \* invocations of the connection factory
    conn,                  \* the connection: "none", "open", "closed"
    closes,                \* how often the connection was closed
    late_io,               \* a receive or send happened on a connection not open
    received,              \* frames read from the connection, in order
    sent,                  \* envelopes sent on the WebSocket, in order
    yielded,               \* results yielded to the consumer, in order
    calls,                 \* results handed to on_message, in order
    handler_failures,      \* how often on_message raised
    raised,                \* the exception that reached the caller
    returned,              \* the return value of ping / status
    event_type,            \* crawl_sse: pending event type
    event_data,            \* crawl_sse: pending data lines
    now,                   \* the event loop's clock
    start_time,            \* ping_websocket: start_time
    end_time,              \* ping_websocket: end_time
    send_time,             \* the clock when the ping request was sent
    tasks,                 \* the WebSocket calls made on one client instance
    sockets,               \* the sockets websockets.connect has opened for them
    late_pull,             \* the generator was pulled after it had finished
    streams,               \* streaming calls consumed side by side
    frames,                \* the generator frames holding their local variables
    session_headers,       \* RipTide: self.session.headers
    generators             \* RipTide: the spider_stream generators created

vars ==
    <<op, urls, query, on_message, WEBSOCKETS_AVAILABLE, pc, connects, conn,
      closes, late_io, received, sent, yielded, calls, handler_failures, raised,
      returned, event_type, event_data, now, start_time, end_time, send_time,
      tasks, sockets, late_pull, streams, frames, session_headers, generators>>

args == <<op, urls, query, on_message, WEBSOCKETS_AVAILABLE>>

client == <<tasks, sockets>>

streaming == <<streams, frames>>

spider == <<session_headers, generators>>

\* what no step of a single call changes before the call has finished
fixed == <<args, client, late_pull, streaming, spider>>

sse_locals == <<event_type, event_data>>

clock == <<now, start_time, end_time, send_time>>

NdjsonOps == {"crawl_ndjson", "deepsearch_ndjson"}

HttpOps == NdjsonOps \cup {"crawl_sse"}

AuxOps == {"ping_websocket", "get_websocket_status"}

WsOps == {"crawl_websocket"} \cup AuxOps

\* the async generators; the other two are coroutines returning a value
GeneratorOps == HttpOps \cup {"crawl_websocket"}

\* suspended at a `yield`
YieldPoints == {"yielded", "yield_welcome", "yield_result", "yield_error"}

\* the call is over: generator exhausted, exception raised to the caller,
\* generator closed by the consumer, coroutine returned
Terminal == {"exhausted", "raised", "closed", "returned"}

Init ==
    /\ op \in HttpOps \cup WsOps
    /\ urls \in (IF op \in {"crawl_ndjson", "crawl_sse", "crawl_websocket"}
                 THEN UrlLists ELSE {PyNone})
    /\ query \in (IF op = "deepsearch_ndjson" THEN Queries ELSE {PyNone})
    /\ on_message \in (IF op = "crawl_websocket"
                       THEN {"None", "callable"} ELSE {"None"})
    /\ WEBSOCKETS_AVAILABLE \in (IF op \in WsOps THEN BOOLEAN ELSE {TRUE})
    /\ pc = "created"
    /\ connects = <<>>
    /\ conn = "none"
    /\ closes = 0
    /\ late_io = FALSE
    /\ received = <<>>
    /\ sent = <<>>
    /\ yielded = <<>>
    /\ calls = <<>>
    /\ handler_failures = 0
    /\ raised = NoException
    /\ returned = PyNone
    /\ event_type = <<>>
    /\ event_data = <<>>
    /\ now = 0
    /\ start_time = 0
    /\ end_time = 0
    /\ send_time = 0
    /\ tasks = <<>>
    /\ sockets = <<>>
    /\ late_pull = FALSE
    /\ streams = <<>>
    /\ frames = <<>>
    /\ session_headers = SessionHeaders
    /\ generators = <<>>

(***************************************************************************)
(* Entry: the checks each entry point makes before it connects             *)
(***************************************************************************)
ImportError ==
    Exception("ImportError",
              <<"websockets library is required for WebSocket streaming. ",
                "Install it with: pip install websockets">>, PyNone)

\* variant: crawl_sse connects without looking at the URL list
InputError_sse_unchecked(o, u, q, available) ==
    CASE o = "crawl_ndjson" ->
            IF ~Truthy(u) THEN ValidationError(<<"URLs list cannot be empty">>)
            ELSE NoException
      [] o = "crawl_sse" -> NoException
      [] o = "deepsearch_ndjson" ->
            IF ~Truthy(q) THEN ValidationError(<<"Query cannot be empty">>)
            ELSE NoException
      [] o = "crawl_websocket" ->
            IF ~available THEN ImportError
            ELSE IF ~Truthy(u)
            THEN ValidationError(<<"URLs list cannot be empty">>)
            ELSE NoException
      [] o \in AuxOps -> IF ~available THEN ImportError ELSE NoException

InputError(o, u, q, available) ==
    CASE o \in {"crawl_ndjson", "crawl_sse"} ->
            IF ~Truthy(u) THEN ValidationError(<<"URLs list cannot be empty">>)
            ELSE NoException
      [] o = "deepsearch_ndjson" ->
            IF ~Truthy(q) THEN ValidationError(<<"Query cannot be empty">>)
            ELSE NoException
      [] o = "crawl_websocket" ->
            IF ~available THEN ImportError
            ELSE IF ~Truthy(u)
            THEN ValidationError(<<"URLs list cannot be empty">>)
            ELSE NoException
      [] o \in AuxOps -> IF ~available THEN ImportError ELSE NoException

\* the first pull of the generator (or the await of the coroutine) runs the
\* body up to the connection attempt
Begin ==
    /\ pc = "created"
    /\ LET e == InputError(op, urls, query, WEBSOCKETS_AVAILABLE)
       IN  IF e # NoException
           THEN /\ raised' = e
                /\ pc' = "raised"
                /\ UNCHANGED start_time
           ELSE /\ pc' = "connecting"
                /\ start_time' = (IF op = "ping_websocket" THEN now
                                  ELSE start_time)
                /\ UNCHANGED raised
    /\ UNCHANGED <<fixed, connects, conn, closes, late_io, received, sent,
                   yielded, calls, handler_failures, returned, sse_locals, now, end_time,
                   send_time>>

(***************************************************************************)
(* The connection handle: `async with` closes it on every way out          *)
(***************************************************************************)
\* __aexit__ of the connection's context manager
Release == /\ conn' = "closed"
           /\ closes' = closes + 1

\* a receive or a send on the connection
Touch == late_io' = (late_io \/ conn # "open")

\* an exception leaves the `async with` block and reaches the caller
Raise(e) ==
    /\ raised' = e
    /\ pc' = "raised"
    /\ Release

(***************************************************************************)
(* NDJSON and SSE over a streamed HTTP response                            *)
(***************************************************************************)
Endpoint(o) ==
    CASE o = "crawl_ndjson" -> "/api/v1/stream/crawl"
      [] o = "deepsearch_ndjson" -> "/api/v1/stream/deepsearch"
      [] o = "crawl_sse" -> "/api/v1/sse/crawl"
      [] o \in WsOps -> "/crawl/ws"

\* the request body: {"urls": urls} or {"query": query, "limit": limit}
RequestBody(o, u, q) ==
    IF o = "deepsearch_ndjson"
    THEN PyDict((s_query :> q) @@ (s_limit :> PyInt(10)))
    ELSE PyDict(s_urls :> u)

Request(o, u, q) ==
    [method |-> IF o \in HttpOps THEN "POST" ELSE "GET",
     path |-> Endpoint(o),
     json |-> IF o \in HttpOps THEN RequestBody(o, u, q) ELSE PyNone,
     accept |-> IF o = "crawl_sse" THEN "text/event-stream" ELSE ""]

\* variant: the failure of the HTTP transport passes as it is
HttpErrorWrap_bare(o, text) == Exception("HTTPError", text, PyNone)

\* `except httpx.HTTPError as e: raise StreamingError(...)`
HttpErrorWrap(o, text) ==
    StreamingError(
        (IF o = "crawl_sse" THEN <<"HTTP error during SSE streaming: ">>
         ELSE <<"HTTP error during streaming: ">>) \o text, PyNone)

\* `if response.status_code != 200:` with the body read: the exception raised
StatusError(o, status_code, body) ==
    LET error_text == decode(body)
    IN  IF ~error_text.ok
        THEN Exception("UnicodeDecodeError", <<"invalid start byte">>, PyNone)
        ELSE StreamingError(
                (IF o = "crawl_sse" THEN <<"SSE streaming failed: ">>
                 ELSE <<"Streaming failed: ">>) \o error_text.val.s,
                PyInt(status_code))

\* self.client.stream(...) fails before there is a response
HttpConnectFails ==
    /\ pc = "connecting"
    /\ op \in HttpOps
    /\ \E e \in HttpErrors :
        /\ raised' = HttpErrorWrap(op, e)
        /\ pc' = "raised"
    /\ connects' = Append(connects, Request(op, urls, query))
    /\ UNCHANGED <<fixed, conn, closes, late_io, received, sent, yielded, calls, handler_failures,
                   returned, sse_locals, clock>>

\* the response arrives: status check, then the locals of the read loop
HttpResponse ==
    /\ pc = "connecting"
    /\ op \in HttpOps
    /\ connects' = Append(connects, Request(op, urls, query))
    /\ \E status_code \in StatusCodes :
        IF status_code # 200
        THEN /\ \E body \in ErrorBodies : raised' = StatusError(op, status_code, body)
             /\ pc' = "raised"
             /\ Release
             /\ UNCHANGED sse_locals
        ELSE /\ pc' = "reading"
             /\ conn' = "open"
             /\ IF op = "crawl_sse"
                THEN /\ event_type' = s_message
                     /\ event_data' = <<>>
                ELSE UNCHANGED sse_locals
             /\ UNCHANGED <<raised, closes>>
    /\ UNCHANGED <<fixed, late_io, received, sent, yielded, calls, handler_failures, returned, clock>>

\* aread() of the error body fails
HttpErrorBodyFails ==
    /\ pc = "connecting"
    /\ op \in HttpOps
    /\ connects' = Append(connects, Request(op, urls, query))
    /\ \E status_code \in StatusCodes \ {200}, e \in HttpErrors :
        Raise(HttpErrorWrap(op, e))
    /\ UNCHANGED <<fixed, late_io, received, sent, yielded, calls, handler_failures, returned,
                   sse_locals, clock>>

\* event_type of the results of an NDJSON entry point
ResultKind(o) == IF o = "crawl_ndjson" THEN s_crawl_result ELSE s_search_result

\* the outcome of a step of a generator: skip (go on reading), yield
\* `result` and suspend at `at`, or raise `exc`; `handled` are the results
\* given to on_message on the way, `failed` counts its failures
Skip ==
    [do |-> "skip", at |-> "reading", result |-> NoResult, exc |-> NoException,
     handled |-> <<>>, failed |-> 0]

Yield(result, at, handled) ==
    [do |-> "yield", at |-> at, result |-> result, exc |-> NoException,
     handled |-> handled, failed |-> 0]

Throw(exc, handled) ==
    [do |-> "raise", at |-> "raised", result |-> NoResult, exc |-> exc,
     handled |-> handled, failed |-> 0]

\* the step went through a failure of on_message
HandlerFailed(step) == [step EXCEPT !.failed = @ + 1]

\* a step takes effect
Take(step) ==
    /\ calls' = calls \o step.handled
    /\ handler_failures' = handler_failures + step.failed
    /\ IF step.do = "raise"
       THEN /\ Raise(step.exc)
            /\ UNCHANGED yielded
       ELSE /\ pc' = step.at
            /\ yielded' = (IF step.do = "yield" THEN Append(yielded, step.result)
                           ELSE yielded)
            /\ UNCHANGED <<raised, conn, closes>>

\* variant: a line that is no JSON is passed over
NdjsonResult_skips_bad_line(data, o) ==
    IF data.ok
    THEN Yield(StreamingResult(PyStr(ResultKind(o)), data.val, PyNone),
               "yielded", <<>>)
    ELSE Skip

\* NDJSON: `data = json.loads(line)`, then the yield or the StreamingError
NdjsonResult(data, o) ==
    IF data.ok
    THEN Yield(StreamingResult(PyStr(ResultKind(o)), data.val, PyNone),
               "yielded", <<>>)
    ELSE Throw(StreamingError(<<"Invalid JSON: ">> \o DecodeErrorText(data), PyNone),
               <<>>)

\* variant: only the empty line counts as blank
NdjsonLine_unstripped(line, o) ==
    IF ~Truthy(PyStr(line)) THEN Skip ELSE NdjsonResult(loads(line), o)

\* the body of `async for line in response.aiter_lines()` of the NDJSON
\* entry points
NdjsonLine(line, o) ==
    IF ~Truthy(PyStr(strip(line))) THEN Skip ELSE NdjsonResult(loads(line), o)

NdjsonReadLine ==
    /\ pc = "reading"
    /\ op \in NdjsonOps
    /\ Len(received) < MaxLines
    /\ \E line \in NdjsonLines :
        /\ received' = Append(received, PyStr(line))
        /\ Take(NdjsonLine(line, op))
    /\ Touch
    /\ UNCHANGED <<fixed, connects, sent, returned, sse_locals, clock>>

\* variant: data that is no JSON is yielded as the bare text
SseResult_bare_text(kind, data_str, data) ==
    IF data.ok
    THEN StreamingResult(PyStr(kind), data.val, PyNone)
    ELSE StreamingResult(PyStr(kind), PyStr(data_str), PyNone)

\* crawl_sse: the result for the joined data and what json.loads made of it
SseResult(kind, data_str, data) ==
    IF data.ok
    THEN StreamingResult(PyStr(kind), data.val, PyNone)
    ELSE StreamingResult(PyStr(kind), PyDict(s_raw :> PyStr(data_str)), PyNone)

\* data_str = "\n".join(event_data)
JoinData(data_lines) == join(<<"\n">>, data_lines)

\* crawl_sse, a blank line with pending data: the result of the block
SseBlock(kind, data_lines) ==
    SseResult(kind, JoinData(data_lines), loads(JoinData(data_lines)))

\* variant: a data line replaces the pending data
SseField_keeps_last_data(line, kind, data_lines) ==
    IF startswith(line, s_event_prefix)
    THEN [event_type |-> strip(SliceFrom(line, 6)), event_data |-> data_lines]
    ELSE IF startswith(line, s_data_prefix)
    THEN [event_type |-> kind, event_data |-> <<strip(SliceFrom(line, 5))>>]
    ELSE [event_type |-> kind, event_data |-> data_lines]

\* variant: a line that is no event or data line drops the pending data
SseField_other_clears(line, kind, data_lines) ==
    IF startswith(line, s_event_prefix)
    THEN [event_type |-> strip(SliceFrom(line, 6)), event_data |-> data_lines]
    ELSE IF startswith(line, s_data_prefix)
    THEN [event_type |-> kind,
          event_data |-> Append(data_lines, strip(SliceFrom(line, 5)))]
    ELSE [event_type |-> kind, event_data |-> <<>>]

\* crawl_sse, a line that is not blank: the pending type and data after it
SseField(line, kind, data_lines) ==
    IF startswith(line, s_event_prefix)
    THEN [event_type |-> strip(SliceFrom(line, 6)), event_data |-> data_lines]
    ELSE IF startswith(line, s_data_prefix)
    THEN [event_type |-> kind,
          event_data |-> Append(data_lines, strip(SliceFrom(line, 5)))]
    ELSE [event_type |-> kind, event_data |-> data_lines]

\* the body of `async for line in response.aiter_lines()` of crawl_sse for
\* one line: the step, and the pending type and data after it
SseLine(raw, kind, data_lines) ==
    IF strip(raw) = <<>>
    THEN [step |-> IF data_lines # <<>>
                   THEN Yield(SseBlock(kind, data_lines), "yielded", <<>>)
                   ELSE Skip,
          event_type |-> kind, event_data |-> data_lines]
    ELSE [step |-> Skip,
          event_type |-> SseField(strip(raw), kind, data_lines).event_type,
          event_data |-> SseField(strip(raw), kind, data_lines).event_data]

\* the line's effect on the generator
SseTake(line) ==
    /\ Take(line.step)
    /\ event_type' = line.event_type
    /\ event_data' = line.event_data

SseReadLine ==
    /\ pc = "reading"
    /\ op = "crawl_sse"
    /\ Len(received) < MaxLines
    /\ \E raw \in SseLines :
        /\ received' = Append(received, PyStr(raw))
        /\ SseTake(SseLine(raw, event_type, event_data))
    /\ Touch
    /\ UNCHANGED <<fixed, connects, sent, returned, clock>>

\* variant: at the end of the body crawl_sse yields the pending block
HttpEndOfBody_flushes ==
    /\ pc = "reading"
    /\ op \in HttpOps
    /\ pc' = "exhausted"
    /\ yielded' = (IF op = "crawl_sse" /\ event_data # <<>>
                   THEN Append(yielded, SseBlock(event_type, event_data))
                   ELSE yielded)
    /\ Release
    /\ Touch
    /\ UNCHANGED <<fixed, connects, received, sent, calls, handler_failures, raised,
                   returned, sse_locals, clock>>

\* the response body ends: the loop and the `async with` block are left
HttpEndOfBody ==
    /\ pc = "reading"
    /\ op \in HttpOps
    /\ pc' = "exhausted"
    /\ Release
    /\ Touch
    /\ UNCHANGED <<fixed, connects, received, sent, yielded, calls, handler_failures, raised,
                   returned, sse_locals, clock>>

\* reading the body fails
HttpReadFails ==
    /\ pc = "reading"
    /\ op \in HttpOps
    /\ \E e \in HttpErrors : Raise(HttpErrorWrap(op, e))
    /\ Touch
    /\ UNCHANGED <<fixed, connects, received, sent, yielded, calls, handler_failures, returned,
                   sse_locals, clock>>

\* variant: the pull after a result also takes the next line off the response
HttpPull_reads_ahead ==
    /\ pc = "yielded"
    /\ op \in HttpOps
    /\ pc' = "reading"
    /\ received' = Append(received, PyStr(line_blank))
    /\ IF op = "crawl_sse"
       THEN /\ event_data' = <<>>
            /\ event_type' = s_message
       ELSE UNCHANGED sse_locals
    /\ UNCHANGED <<fixed, connects, conn, closes, late_io, sent,
                   yielded, calls, handler_failures, raised, returned, clock>>

\* the consumer pulls the next result: the generator resumes after its
\* `yield`; crawl_sse then resets the pending data and type
HttpPull ==
    /\ pc = "yielded"
    /\ op \in HttpOps
    /\ pc' = "reading"
    /\ IF op = "crawl_sse"
       THEN /\ event_data' = <<>>
            /\ event_type' = s_message
       ELSE UNCHANGED sse_locals
    /\ UNCHANGED <<fixed, connects, conn, closes, late_io, received, sent,
                   yielded, calls, handler_failures, raised, returned, clock>>

\* variant: closing the generator leaves the connection as it is
Abandon_without_release ==
    /\ op \in GeneratorOps
    /\ pc \in YieldPoints \cup {"created"}
    /\ pc' = "closed"
    /\ UNCHANGED <<conn, closes>>
    /\ UNCHANGED <<fixed, connects, late_io, received, sent, yielded, calls, handler_failures,
                   raised, returned, sse_locals, clock>>

\* the consumer stops iterating: the generator is closed, GeneratorExit is
\* raised at the `yield` and leaves the `async with` block; a generator that
\* was never started has nothing to release
Abandon ==
    /\ op \in GeneratorOps
    /\ pc \in YieldPoints \cup {"created"}
    /\ pc' = "closed"
    /\ IF pc = "created" THEN UNCHANGED <<conn, closes>> ELSE Release
    /\ UNCHANGED <<fixed, connects, late_io, received, sent, yielded, calls, handler_failures,
                   raised, returned, sse_locals, clock>>

(***************************************************************************)
(* WebSocket: crawl_websocket, ping_websocket, get_websocket_status        *)
(***************************************************************************)
\* the classes of websockets.exceptions.WebSocketException that occur here
WebSocketExceptions == {"ConnectionClosedOK", "ConnectionClosedError", "InvalidStatus"}

\* what websockets.connect may raise
WsConnectErrors ==
    {Exception("InvalidStatus", <<"server rejected WebSocket connection">>, PyNone),
     Exception("TimeoutError", <<"timed out during handshake">>, PyNone),
     Exception("OSError", <<"Connection refused">>, PyNone)}

\* what recv / send raise when the connection is gone
WsClosedErrors ==
    {Exception("ConnectionClosedOK", <<"received 1000 (OK)">>, PyNone),
     Exception("ConnectionClosedError", <<"no close frame received">>, PyNone)}

UnicodeDecodeError == Exception("UnicodeDecodeError", <<"invalid start byte">>, PyNone)

AttributeError == Exception("AttributeError", <<"object has no attribute 'get'">>, PyNone)

JSONDecodeError(r) == Exception("JSONDecodeError", DecodeErrorText(r), PyNone)

HandlerException(outcome) == Exception(outcome, <<"handler failed">>, PyNone)

\* variant: the exception is raised on as it is
crawl_websocket_except_bare(e) == e

\* the except clauses of crawl_websocket
crawl_websocket_except(e) ==
    IF e.type \in WebSocketExceptions
    THEN StreamingError(<<"WebSocket error: ">> \o e.message, PyNone)
    ELSE IF e.type = "TimeoutError"
    THEN StreamingError(<<"WebSocket connection timeout">>, PyNone)
    ELSE StreamingError(
            <<"Unexpected error during WebSocket streaming: ">> \o e.message, PyNone)

\* the except clause of ping_websocket and get_websocket_status
aux_except(o, e) ==
    StreamingError(
        (IF o = "ping_websocket" THEN <<"WebSocket ping failed: ">>
         ELSE <<"Failed to get WebSocket status: ">>) \o e.message, PyNone)

ws_except(o, e) ==
    IF o = "crawl_websocket" THEN crawl_websocket_except(e) ELSE aux_except(o, e)

\* json.loads of a message, which may be str or bytes
Loaded(r) ==
    IF r.ok THEN [exc |-> NoException, val |-> r.val]
    ELSE [exc |-> JSONDecodeError(r), val |-> PyNone]

\* the text of a message: a str as it is, bytes decoded
MessageText(message) ==
    IF message.t = "bytes" THEN decode(message.s)
    ELSE [ok |-> TRUE, val |-> message]

loads_message(message) ==
    IF ~MessageText(message).ok THEN [exc |-> UnicodeDecodeError, val |-> PyNone]
    ELSE Loaded(loads(MessageText(message).val.s))

\* websockets.connect(...) fails: nothing was opened
WsConnectFails ==
    /\ pc = "connecting"
    /\ op \in WsOps
    /\ connects' = Append(connects, Request(op, urls, query))
    /\ \E e \in WsConnectErrors :
        /\ raised' = ws_except(op, e)
        /\ pc' = "raised"
    /\ UNCHANGED <<fixed, conn, closes, late_io, received, sent, yielded, calls, handler_failures,
                   returned, sse_locals, clock>>

WsConnect ==
    /\ pc = "connecting"
    /\ op \in WsOps
    /\ connects' = Append(connects, Request(op, urls, query))
    /\ conn' = "open"
    /\ pc' = "await_welcome"
    /\ UNCHANGED <<fixed, closes, late_io, received, sent, yielded, calls, handler_failures, raised,
                   returned, sse_locals, clock>>

\* StreamingResult of a decoded message; kind is the default event_type
MessageResult(data, kind) ==
    StreamingResult(Get(data, s_message_type, PyStr(kind)),
                    Get(data, s_data, data),
                    Get(data, s_timestamp, PyNone))

\* variant: the welcome is yielded without being handed to on_message
WelcomeResult_unhandled(welcome_data, handler, outcome) ==
    IF welcome_data.exc # NoException
    THEN Throw(crawl_websocket_except(welcome_data.exc), <<>>)
    ELSE IF ~HasGet(welcome_data.val)
    THEN Throw(crawl_websocket_except(AttributeError), <<>>)
    ELSE Yield(MessageResult(welcome_data.val, s_welcome), "yield_welcome", <<>>)

\* variant: a first message whose type is not welcome is refused
WelcomeResult_checked(welcome_data, handler, outcome) ==
    IF welcome_data.exc # NoException
    THEN Throw(crawl_websocket_except(welcome_data.exc), <<>>)
    ELSE IF ~HasGet(welcome_data.val)
    THEN Throw(crawl_websocket_except(AttributeError), <<>>)
    ELSE IF Get(welcome_data.val, s_message_type, PyStr(s_welcome)) # PyStr(s_welcome)
    THEN Throw(StreamingError(<<"Expected welcome message">>, PyNone), <<>>)
    ELSE WelcomeResult_unhandled(welcome_data, handler, outcome)

\* crawl_websocket after `welcome_data = json.loads(welcome_msg)` up to the
\* first yield; outcome is what on_message does with the result
WelcomeResult(welcome_data, handler, outcome) ==
    IF welcome_data.exc # NoException
    THEN Throw(crawl_websocket_except(welcome_data.exc), <<>>)
    ELSE IF ~HasGet(welcome_data.val)
    THEN Throw(crawl_websocket_except(AttributeError), <<>>)
    ELSE IF handler = "None"
    THEN Yield(MessageResult(welcome_data.val, s_welcome), "yield_welcome", <<>>)
    ELSE IF outcome = "ok"
    THEN Yield(MessageResult(welcome_data.val, s_welcome), "yield_welcome",
               <<MessageResult(welcome_data.val, s_welcome)>>)
    ELSE HandlerFailed(Throw(crawl_websocket_except(HandlerException(outcome)),
                             <<MessageResult(welcome_data.val, s_welcome)>>))

\* crawl_websocket from `welcome_msg = await websocket.recv()` to the first
\* yield
WelcomeStep(welcome_msg, handler, outcome) ==
    WelcomeResult(loads_message(welcome_msg), handler, outcome)

\* the result yielded for a message that json.loads rejects
ErrorResult(text, message) ==
    StreamingResult(
        PyStr(s_error),
        PyDict((s_error :> PyStr(<<"Invalid JSON received: ">> \o text))
               @@ (s_raw :> message)),
        PyNone)

\* variant: a message that is no JSON ends the stream with StreamingError
OnDecodeError_raises(e, message, handler, second, handled) ==
    Throw(StreamingError(<<"Invalid JSON: ">> \o e.message, PyNone), handled)

\* `except json.JSONDecodeError as e:` for e, with message the text received;
\* second is what on_message does with the error result
OnDecodeError(e, message, handler, second, handled) ==
    IF handler = "None"
    THEN Yield(ErrorResult(e.message, message), "yield_error", handled)
    ELSE IF second = "ok"
    THEN Yield(ErrorResult(e.message, message), "yield_error",
               Append(handled, ErrorResult(e.message, message)))
    ELSE HandlerFailed(Throw(crawl_websocket_except(HandlerException(second)),
                             Append(handled, ErrorResult(e.message, message))))

\* variant: JSON that is no object becomes an error event like text that is
\* no JSON
LoopResult_lenient(data, message, handler, first, second) ==
    IF ~data.ok
    THEN Yield(ErrorResult(DecodeErrorText(data), message), "yield_error", <<>>)
    ELSE IF ~HasGet(data.val)
    THEN Yield(ErrorResult(<<"not an object">>, message), "yield_error", <<>>)
    ELSE Yield(MessageResult(data.val, s_message), "yield_result", <<>>)

\* the try block of the loop once `data = json.loads(message)` is known;
\* first is what on_message does with the result
LoopResult(data, message, handler, first, second) ==
    IF ~data.ok
    THEN OnDecodeError(JSONDecodeError(data), message, handler, second, <<>>)
    ELSE IF ~HasGet(data.val)
    THEN Throw(crawl_websocket_except(AttributeError), <<>>)
    ELSE IF handler = "None"
    THEN Yield(MessageResult(data.val, s_message), "yield_result", <<>>)
    ELSE IF first = "ok"
    THEN Yield(MessageResult(data.val, s_message), "yield_result",
               <<MessageResult(data.val, s_message)>>)
    ELSE IF first = "JSONDecodeError"
    THEN HandlerFailed(OnDecodeError(HandlerException(first), message, handler,
                                     second, <<MessageResult(data.val, s_message)>>))
    ELSE HandlerFailed(Throw(crawl_websocket_except(HandlerException(first)),
                             <<MessageResult(data.val, s_message)>>))

\* the body of `async for message in websocket` for one message
LoopStep(message, handler, first, second) ==
    IF ~MessageText(message).ok
    THEN Throw(crawl_websocket_except(UnicodeDecodeError), <<>>)
    ELSE LoopResult(loads(MessageText(message).val.s), MessageText(message).val,
                    handler, first, second)

\* the outcomes of on_message that can differ for this call
Outcomes(handler) == IF handler = "None" THEN {"ok"} ELSE HandlerOutcomes

WsRecvWelcome ==
    /\ pc = "await_welcome"
    /\ op = "crawl_websocket"
    /\ Len(received) < MaxMessages
    /\ \E welcome_msg \in WsMessages, outcome \in Outcomes(on_message) :
        /\ received' = Append(received, welcome_msg)
        /\ Take(WelcomeStep(welcome_msg, on_message, outcome))
    /\ Touch
    /\ UNCHANGED <<fixed, connects, sent, returned, sse_locals, clock>>

\* the request envelope of an entry point
RequestEnvelope(o, u) ==
    PyDict((s_request_type :>
                PyStr(CASE o = "crawl_websocket" -> s_crawl
                        [] o = "ping_websocket" -> s_ping
                        [] o = "get_websocket_status" -> s_status))
           @@ (s_data :> IF o = "crawl_websocket" THEN PyDict(s_urls :> u)
                         ELSE PyDict(EmptyMap)))

\* variant: the crawl request goes out twice
WsSendCrawl_twice ==
    /\ pc = "yield_welcome"
    /\ op = "crawl_websocket"
    /\ sent' = sent \o <<RequestEnvelope(op, urls), RequestEnvelope(op, urls)>>
    /\ pc' = "recv_loop"
    /\ Touch
    /\ UNCHANGED <<fixed, connects, conn, closes, received, yielded, calls, handler_failures,
                   raised, returned, sse_locals, clock>>

\* the consumer pulls after the welcome: the crawl request is sent (sent
\* holds the envelopes given to json.dumps)
WsSendCrawl ==
    /\ pc = "yield_welcome"
    /\ op = "crawl_websocket"
    /\ sent' = Append(sent, RequestEnvelope(op, urls))
    /\ pc' = "recv_loop"
    /\ Touch
    /\ UNCHANGED <<fixed, connects, conn, closes, received, yielded, calls, handler_failures,
                   raised, returned, sse_locals, clock>>

\* the send fails
WsSendCrawlFails ==
    /\ pc = "yield_welcome"
    /\ op = "crawl_websocket"
    /\ \E e \in WsClosedErrors : Raise(crawl_websocket_except(e))
    /\ Touch
    /\ UNCHANGED <<fixed, connects, received, sent, yielded, calls, handler_failures, returned,
                   sse_locals, clock>>

WsRecvLoop ==
    /\ pc = "recv_loop"
    /\ op = "crawl_websocket"
    /\ Len(received) < MaxMessages
    /\ \E message \in WsMessages, first \in Outcomes(on_message),
          second \in Outcomes(on_message) :
        /\ received' = Append(received, message)
        /\ Take(LoopStep(message, on_message, first, second))
    /\ Touch
    /\ UNCHANGED <<fixed, connects, sent, returned, sse_locals, clock>>

\* variant: the loop has no break
StopAfter_never(result) == FALSE

\* `if result.event_type == "summary": break`
StopAfter(result) == result.event_type = PyStr(s_summary)

\* the consumer pulls after a result or an error result of the loop
WsPull ==
    /\ pc \in {"yield_result", "yield_error"}
    /\ op = "crawl_websocket"
    /\ IF pc = "yield_result" /\ StopAfter(yielded[Len(yielded)])
       THEN /\ pc' = "exhausted"
            /\ Release
       ELSE /\ pc' = "recv_loop"
            /\ UNCHANGED <<conn, closes>>
    /\ UNCHANGED <<fixed, connects, late_io, received, sent, yielded, calls, handler_failures,
                   raised, returned, sse_locals, clock>>

\* variant: every closure raises, also a normal one inside the loop
WsClosed_always_raises ==
    /\ pc \in {"await_welcome", "recv_loop"}
    /\ op = "crawl_websocket"
    /\ \E e \in WsClosedErrors : Raise(crawl_websocket_except(e))
    /\ Touch
    /\ UNCHANGED <<fixed, connects, received, sent, yielded, calls, handler_failures, returned,
                   sse_locals, clock>>

\* the connection is closed while crawl_websocket waits for a message: the
\* first recv() raises; `async for` ends on a normal closure and raises on
\* any other
WsClosed ==
    /\ pc \in {"await_welcome", "recv_loop"}
    /\ op = "crawl_websocket"
    /\ \E e \in WsClosedErrors :
        IF pc = "recv_loop" /\ e.type = "ConnectionClosedOK"
        THEN /\ pc' = "exhausted"
             /\ Release
             /\ UNCHANGED raised
        ELSE Raise(crawl_websocket_except(e))
    /\ Touch
    /\ UNCHANGED <<fixed, connects, received, sent, yielded, calls, handler_failures, returned,
                   sse_locals, clock>>

\* ping / status: `await websocket.recv()`, the welcome, which is dropped
AuxRecvWelcome ==
    /\ pc = "await_welcome"
    /\ op \in AuxOps
    /\ \E welcome_msg \in AuxMessages : received' = Append(received, welcome_msg)
    /\ pc' = "aux_send"
    /\ Touch
    /\ UNCHANGED <<fixed, connects, conn, closes, sent, yielded, calls, handler_failures, raised,
                   returned, sse_locals, clock>>

AuxSend ==
    /\ pc = "aux_send"
    /\ op \in AuxOps
    /\ sent' = Append(sent, RequestEnvelope(op, urls))
    /\ send_time' = now
    /\ pc' = "await_reply"
    /\ Touch
    /\ UNCHANGED <<fixed, connects, conn, closes, received, yielded, calls, handler_failures,
                   raised, returned, sse_locals, now, start_time, end_time>>

\* the dict ping_websocket returns, data being pong_data.get("data", {})
PingDict(data, latency_ms) ==
    IF ~HasGet(data) THEN [exc |-> AttributeError, val |-> PyNone]
    ELSE [exc |-> NoException,
          val |-> PyDict((s_success :> PyBool(TRUE))
                         @@ (s_latency_ms :> PyInt(latency_ms))
                         @@ (s_server_time :> Get(data, s_timestamp, PyNone))
                         @@ (s_session_id :> Get(data, s_session_id, PyNone)))]

\* ping_websocket after `pong_data = json.loads(pong_msg)`
PingResult(pong_data, t0, t1) ==
    IF pong_data.exc # NoException THEN [exc |-> pong_data.exc, val |-> PyNone]
    ELSE IF ~HasGet(pong_data.val) THEN [exc |-> AttributeError, val |-> PyNone]
    ELSE PingDict(Get(pong_data.val, s_data, PyDict(EmptyMap)), (t1 - t0) * 1000)

\* what ping_websocket returns for a pong, or the exception of its last lines
PingReturn(pong_msg, t0, t1) == PingResult(loads_message(pong_msg), t0, t1)

\* variant: the whole reply is returned
StatusResult_whole_reply(status_data) ==
    IF status_data.exc # NoException THEN [exc |-> status_data.exc, val |-> PyNone]
    ELSE [exc |-> NoException, val |-> status_data.val]

\* get_websocket_status after `status_data = json.loads(status_msg)`
StatusResult(status_data) ==
    IF status_data.exc # NoException THEN [exc |-> status_data.exc, val |-> PyNone]
    ELSE IF ~HasGet(status_data.val) THEN [exc |-> AttributeError, val |-> PyNone]
    ELSE [exc |-> NoException,
          val |-> Get(status_data.val, s_data, PyDict(EmptyMap))]

\* what get_websocket_status returns for the reply
StatusReturn(status_msg) == StatusResult(loads_message(status_msg))

\* the coroutine ends: it returns r.val or raises r.exc wrapped
AuxEnd(r) ==
    IF r.exc # NoException
    THEN /\ raised' = aux_except(op, r.exc)
         /\ pc' = "raised"
         /\ UNCHANGED returned
    ELSE /\ returned' = r.val
         /\ pc' = "returned"
         /\ UNCHANGED raised

PingRecvPong ==
    /\ pc = "await_reply"
    /\ op = "ping_websocket"
    /\ \E pong_msg \in AuxMessages :
        /\ received' = Append(received, pong_msg)
        /\ AuxEnd(PingReturn(pong_msg, start_time, now))
    /\ end_time' = now
    /\ Release
    /\ Touch
    /\ UNCHANGED <<fixed, connects, sent, yielded, calls, handler_failures, sse_locals, now,
                   start_time, send_time>>

StatusRecvReply ==
    /\ pc = "await_reply"
    /\ op = "get_websocket_status"
    /\ \E status_msg \in AuxMessages :
        /\ received' = Append(received, status_msg)
        /\ AuxEnd(StatusReturn(status_msg))
    /\ Release
    /\ Touch
    /\ UNCHANGED <<fixed, connects, sent, yielded, calls, handler_failures, sse_locals, clock>>

\* recv or send of ping / status fails
AuxFails ==
    /\ pc \in {"await_welcome", "aux_send", "await_reply"}
    /\ op \in AuxOps
    /\ \E e \in WsClosedErrors : Raise(aux_except(op, e))
    /\ Touch
    /\ UNCHANGED <<fixed, connects, received, sent, yielded, calls, handler_failures, returned,
                   sse_locals, clock>>

\* time passes while ping_websocket waits
Tick ==
    /\ op = "ping_websocket"
    /\ pc \in {"connecting", "await_welcome", "aux_send", "await_reply"}
    /\ now < MaxClock
    /\ now' = now + 1
    /\ UNCHANGED <<fixed, pc, connects, conn, closes, late_io, received, sent,
                   yielded, calls, handler_failures, raised, returned, sse_locals, start_time,
                   end_time, send_time>>

\* variant: a pull on a finished generator runs the body again
PullFinished_restarts ==
    /\ op \in GeneratorOps
    /\ pc \in {"exhausted", "raised", "closed"}
    /\ late_pull' = TRUE
    /\ pc' = "connecting"
    /\ UNCHANGED <<args, client, streaming, spider, connects, conn, closes, late_io,
                   received, sent, yielded, calls, handler_failures, raised,
                   returned, sse_locals, clock>>

\* the consumer pulls on a generator that has finished (its body returned,
\* raised, or it was closed): StopAsyncIteration, no line of the body runs
PullFinished ==
    /\ op \in GeneratorOps
    /\ pc \in {"exhausted", "raised", "closed"}
    /\ late_pull' = TRUE
    /\ UNCHANGED <<args, client, streaming, spider, pc, connects, conn, closes,
                   late_io, received, sent, yielded, calls, handler_failures,
                   raised, returned, sse_locals, clock>>

Next ==
    \/ Begin
    \/ HttpConnectFails
    \/ HttpResponse
    \/ HttpErrorBodyFails
    \/ NdjsonReadLine
    \/ SseReadLine
    \/ HttpEndOfBody
    \/ HttpReadFails
    \/ HttpPull
    \/ Abandon
    \/ WsConnectFails
    \/ WsConnect
    \/ WsRecvWelcome
    \/ WsSendCrawl
    \/ WsSendCrawlFails
    \/ WsRecvLoop
    \/ WsPull
    \/ WsClosed
    \/ AuxRecvWelcome
    \/ AuxSend
    \/ PingRecvPong
    \/ StatusRecvReply
    \/ AuxFails
    \/ Tick
    \/ PullFinished

Spec == Init /\ [][Next]_vars

(***************************************************************************)
(* Several WebSocket calls on one client instance, in any interleaving.    *)
(* Of each call only its position and its socket are kept: `websocket` is  *)
(* the name `async with websockets.connect(...) as websocket` binds, a     *)
(* number into sockets (0 before the connection).                          *)
(***************************************************************************)
single == <<pc, connects, conn, closes, late_io, received, sent, yielded, calls,
            handler_failures, raised, returned, sse_locals, clock, late_pull>>

Task(o, at, handle) == [op |-> o, pc |-> at, websocket |-> handle]

Socket(k) == [opened_by |-> k, used_by |-> {}, frames |-> 0, closes |-> 0]

\* a call is made; its checks pass
CallStart ==
    /\ Len(tasks) < MaxCalls
    /\ \E o \in WsOps : tasks' = Append(tasks, Task(o, "connecting", 0))
    /\ UNCHANGED <<args, single, streaming, spider, sockets>>

\* variant: a call takes over the socket of the call before it
CallConnect_reusing(k) ==
    /\ tasks[k].pc = "connecting"
    /\ IF sockets = <<>>
       THEN /\ sockets' = Append(sockets, Socket(k))
            /\ tasks' = [tasks EXCEPT ![k] = Task(@.op, "await_welcome", 1)]
       ELSE /\ tasks' = [tasks EXCEPT ![k] = Task(@.op, "await_welcome", Len(sockets))]
            /\ UNCHANGED sockets
    /\ UNCHANGED <<args, single, streaming, spider>>

\* `async with websockets.connect(...) as websocket`: a new socket
CallConnect(k) ==
    /\ tasks[k].pc = "connecting"
    /\ sockets' = Append(sockets, Socket(k))
    /\ tasks' = [tasks EXCEPT ![k] = Task(@.op, "await_welcome", Len(sockets) + 1)]
    /\ UNCHANGED <<args, single, streaming, spider>>

\* websockets.connect raises: the call ends with StreamingError, no socket
CallConnectFails(k) ==
    /\ tasks[k].pc = "connecting"
    /\ tasks' = [tasks EXCEPT ![k] = Task(@.op, "raised", 0)]
    /\ UNCHANGED <<args, single, streaming, spider, sockets>>

\* __aexit__ of the call's `async with`
CallRelease(k) ==
    sockets' = [sockets EXCEPT ![tasks[k].websocket] =
                    [@ EXCEPT !.closes = @ + 1]]

\* where a call stands after it received a message
AfterRecv(o, at) ==
    CASE o = "crawl_websocket" /\ at = "await_welcome" -> "yield_welcome"
      [] o = "crawl_websocket" /\ at = "recv_loop" -> "yield_result"
      [] o \in AuxOps /\ at = "await_welcome" -> "aux_send"
      [] o \in AuxOps /\ at = "await_reply" -> "returned"

\* `await websocket.recv()` or the next message of `async for`; the reply
\* to ping / status ends the call
CallRecv(k) ==
    /\ tasks[k].pc \in {"await_welcome", "recv_loop", "await_reply"}
    /\ sockets[tasks[k].websocket].frames < MaxMessages
    /\ tasks' = [tasks EXCEPT ![k] = Task(@.op, AfterRecv(@.op, @.pc), @.websocket)]
    /\ sockets' = [sockets EXCEPT ![tasks[k].websocket] =
                    [@ EXCEPT !.used_by = @ \cup {k},
                              !.frames = @ + 1,
                              !.closes = @ + (IF tasks[k].pc = "await_reply"
                                              THEN 1 ELSE 0)]]
    /\ UNCHANGED <<args, single, streaming, spider>>

\* `await websocket.send(json.dumps(...))`: crawl_websocket on the pull after
\* the welcome, ping / status after the welcome
CallSend(k) ==
    /\ tasks[k].pc \in {"yield_welcome", "aux_send"}
    /\ tasks' = [tasks EXCEPT ![k] =
                    Task(@.op, IF @.op = "crawl_websocket" THEN "recv_loop"
                               ELSE "await_reply", @.websocket)]
    /\ sockets' = [sockets EXCEPT ![tasks[k].websocket] =
                    [@ EXCEPT !.used_by = @ \cup {k}]]
    /\ UNCHANGED <<args, single, streaming, spider>>

\* the consumer pulls after a result: the loop goes on, or it ended with
\* `break` after a summary
CallPull(k) ==
    /\ tasks[k].pc = "yield_result"
    /\ \/ /\ tasks' = [tasks EXCEPT ![k] = Task(@.op, "recv_loop", @.websocket)]
          /\ UNCHANGED sockets
       \/ /\ tasks' = [tasks EXCEPT ![k] = Task(@.op, "exhausted", @.websocket)]
          /\ CallRelease(k)
    /\ UNCHANGED <<args, single, streaming, spider>>

\* the call leaves its `async with` block otherwise: recv or send raises, the
\* server closes, or the consumer closes the generator at a yield
CallExit(k) ==
    /\ tasks[k].pc \in {"await_welcome", "yield_welcome", "aux_send", "recv_loop",
                        "yield_result", "await_reply"}
    /\ tasks' = [tasks EXCEPT ![k] =
                    Task(@.op, IF @.pc \in YieldPoints THEN "closed" ELSE "raised",
                         @.websocket)]
    /\ CallRelease(k)
    /\ UNCHANGED <<args, single, streaming, spider>>

CallsInit ==
    /\ Init
    /\ op = "crawl_websocket"
    /\ urls = PyList(<<PyStr(url_example)>>)
    /\ on_message = "None"
    /\ WEBSOCKETS_AVAILABLE

CallsNext ==
    \/ CallStart
    \/ \E k \in 1..Len(tasks) : CallConnect(k)
    \/ \E k \in 1..Len(tasks) : CallConnectFails(k)
    \/ \E k \in 1..Len(tasks) : CallRecv(k)
    \/ \E k \in 1..Len(tasks) : CallSend(k)
    \/ \E k \in 1..Len(tasks) : CallPull(k)
    \/ \E k \in 1..Len(tasks) : CallExit(k)

Calls == CallsInit /\ [][CallsNext]_vars

(***************************************************************************)
(* Streaming calls made on one StreamingAPI instance and consumed side by  *)
(* side.  A call is an async generator: streams[k] holds what call k       *)
(* received on its connection, what it yielded and where it stands,        *)
(* frames[k] the local variables event_type / event_data of its frame.     *)
(* Connection failures are left to the single call above; on_message is    *)
(* None.                                                                   *)
(***************************************************************************)
StreamOps == {"crawl_ndjson", "crawl_sse", "crawl_websocket"}

\* what the server may deliver to a call
StreamFrames(o) ==
    CASE o = "crawl_ndjson" -> {PyStr(line_object), PyStr(line_not_json)}
      [] o = "crawl_sse" ->
            {PyStr(sse_event_result), PyStr(sse_data_number), PyStr(sse_blank)}
      [] o = "crawl_websocket" ->
            {PyStr(ws_welcome), PyStr(ws_result), PyStr(ws_summary)}

Stream(o) == [op |-> o, pc |-> "created", received |-> <<>>, yielded |-> <<>>]

Locals(kind, data_lines) == [event_type |-> kind, event_data |-> data_lines]

\* the frames the first k calls have read
RECURSIVE FramesRead(_)
FramesRead(k) ==
    IF k = 0 THEN 0 ELSE Len(streams[k].received) + FramesRead(k - 1)

\* variant: the pending type and data are kept in one place for all calls
Frame_shared(k) == 1

\* the frame that holds the local variables of call k: every call of an
\* async generator function has a frame of its own
Frame(k) == k

\* client.streaming.crawl_ndjson(...) etc.: the generator object is made
StreamCall ==
    /\ Len(streams) < MaxCalls
    /\ \E o \in StreamOps : streams' = Append(streams, Stream(o))
    /\ frames' = Append(frames, Locals(<<>>, <<>>))
    /\ UNCHANGED <<args, single, client, spider>>

\* the first pull: the call connects; crawl_sse sets event_type = "message"
\* and event_data = []
StreamConnect(k) ==
    /\ streams[k].pc = "created"
    /\ streams' = [streams EXCEPT ![k].pc =
                        IF streams[k].op = "crawl_websocket" THEN "await_welcome"
                        ELSE "reading"]
    /\ frames' = (IF streams[k].op = "crawl_sse"
                  THEN [frames EXCEPT ![Frame(k)] = Locals(s_message, <<>>)]
                  ELSE frames)
    /\ UNCHANGED <<args, single, client, spider>>

\* what the body of the call does with a frame of its connection: the step,
\* and the local variables after it
StreamStep(s, local, frame) ==
    CASE s.op = "crawl_sse" -> SseLine(frame.s, local.event_type, local.event_data)
      [] s.op = "crawl_ndjson" ->
            [step |-> NdjsonLine(frame.s, s.op),
             event_type |-> local.event_type, event_data |-> local.event_data]
      [] s.op = "crawl_websocket" /\ s.pc = "await_welcome" ->
            [step |-> WelcomeStep(frame, "None", "ok"),
             event_type |-> local.event_type, event_data |-> local.event_data]
      [] s.op = "crawl_websocket" /\ s.pc = "recv_loop" ->
            [step |-> LoopStep(frame, "None", "ok", "ok"),
             event_type |-> local.event_type, event_data |-> local.event_data]

\* the step takes effect on call k
StreamTake(k, frame, r) ==
    /\ streams' = [streams EXCEPT ![k] =
                    [op |-> @.op,
                     pc |-> IF r.step.do = "raise" THEN "raised" ELSE r.step.at,
                     received |-> Append(@.received, frame),
                     yielded |-> IF r.step.do = "yield"
                                 THEN Append(@.yielded, r.step.result)
                                 ELSE @.yielded]]
    /\ frames' = [frames EXCEPT ![Frame(k)] = Locals(r.event_type, r.event_data)]

\* call k takes the next frame off its own connection
StreamRead(k) ==
    /\ streams[k].pc \in {"reading", "await_welcome", "recv_loop"}
    /\ FramesRead(Len(streams)) < MaxFrames
    /\ \E frame \in StreamFrames(streams[k].op) :
        StreamTake(k, frame, StreamStep(streams[k], frames[Frame(k)], frame))
    /\ UNCHANGED <<args, single, client, spider>>

\* where call k goes on when it is resumed at its yield
StreamResume(s) ==
    CASE s.pc = "yielded" -> "reading"
      [] s.pc \in {"yield_welcome", "yield_error"} -> "recv_loop"
      [] s.pc = "yield_result" ->
            IF StopAfter(s.yielded[Len(s.yielded)]) THEN "exhausted" ELSE "recv_loop"

\* the consumer of call k pulls: crawl_sse resets its pending data and type
StreamPull(k) ==
    /\ streams[k].pc \in YieldPoints
    /\ streams' = [streams EXCEPT ![k].pc = StreamResume(streams[k])]
    /\ frames' = (IF streams[k].op = "crawl_sse"
                  THEN [frames EXCEPT ![Frame(k)] = Locals(s_message, <<>>)]
                  ELSE frames)
    /\ UNCHANGED <<args, single, client, spider>>

\* the body of the response ends, or the server closes the socket normally
StreamEnd(k) ==
    /\ streams[k].pc \in {"reading", "recv_loop"}
    /\ streams' = [streams EXCEPT ![k].pc = "exhausted"]
    /\ UNCHANGED <<args, single, client, spider, frames>>

StreamsInit ==
    /\ Init
    /\ op = "crawl_sse"
    /\ urls = PyList(<<PyStr(url_example)>>)

StreamsNext ==
    \/ StreamCall
    \/ \E k \in 1..Len(streams) : StreamConnect(k)
    \/ \E k \in 1..Len(streams) : StreamRead(k)
    \/ \E k \in 1..Len(streams) : StreamPull(k)
    \/ \E k \in 1..Len(streams) : StreamEnd(k)

Streams == StreamsInit /\ [][StreamsNext]_vars

(***************************************************************************)
(* RipTide.spider_stream: generators created on one client, their steps in *)
(* any interleaving.  Of a generator its position, its local               *)
(* original_headers and the number of events it yielded are kept.          *)
(***************************************************************************)
Generator(at, saved, n) == [pc |-> at, original_headers |-> saved, events |-> n]

\* lines of the response that are not empty (`if line:`)
SpiderLines == {line_object, line_number, line_not_json, line_spaces}

\* client.spider_stream(...): the generator object is made, no line of the
\* body runs
SpiderCall ==
    /\ Len(generators) < MaxGenerators
    /\ generators' = Append(generators, Generator("created", EmptyMap, 0))
    /\ UNCHANGED <<args, single, client, streaming, session_headers>>

\* original_headers while next() runs: on the first next() the copy of
\* self.session.headers taken then
SpiderSaved(g) ==
    IF generators[g].pc = "created" THEN session_headers
    ELSE generators[g].original_headers

\* self.session.headers while next() runs: the first next() updates them
SpiderUpdated(g) ==
    IF generators[g].pc = "created" THEN StreamHeaders @@ session_headers
    ELSE session_headers

\* next() runs the body up to a yield: the request is answered (first next()
\* only), empty lines are passed over, a line is decoded and yielded
SpiderYield(g) ==
    /\ generators[g].pc \in {"created", "yielded"}
    /\ generators[g].events < MaxLines
    /\ \E line \in SpiderLines : loads(line).ok
    /\ generators' = [generators EXCEPT ![g] =
                        Generator("yielded", SpiderSaved(g), @.events + 1)]
    /\ session_headers' = SpiderUpdated(g)
    /\ UNCHANGED <<args, single, client, streaming>>

\* next() raises: self._request raises (first next() only), or json.loads
\* raises on a line; the finally clause assigns original_headers
SpiderRaise(g) ==
    /\ generators[g].pc \in {"created", "yielded"}
    /\ \/ generators[g].pc = "created"
       \/ \E line \in SpiderLines : ~loads(line).ok
    /\ generators' = [generators EXCEPT ![g] =
                        Generator("failed", SpiderSaved(g), @.events)]
    /\ session_headers' = SpiderSaved(g)
    /\ UNCHANGED <<args, single, client, streaming>>

\* next() finds response.iter_lines() exhausted: the finally clause runs and
\* the generator returns
SpiderReturn(g) ==
    /\ generators[g].pc \in {"created", "yielded"}
    /\ generators' = [generators EXCEPT ![g] =
                        Generator("exhausted", SpiderSaved(g), @.events)]
    /\ session_headers' = SpiderSaved(g)
    /\ UNCHANGED <<args, single, client, streaming>>

\* close(): GeneratorExit at the yield runs the finally clause; a generator
\* never started has no finally clause to run
SpiderClose(g) ==
    /\ generators[g].pc \in {"created", "yielded"}
    /\ generators' = [generators EXCEPT ![g] =
                        Generator("closed", @.original_headers, @.events)]
    /\ session_headers' = (IF generators[g].pc = "yielded"
                           THEN generators[g].original_headers
                           ELSE session_headers)
    /\ UNCHANGED <<args, single, client, streaming>>

SpiderInit ==
    /\ Init
    /\ op = "crawl_ndjson"
    /\ urls = PyList(<<PyStr(url_example)>>)

SpiderNext ==
    \/ SpiderCall
    \/ \E g \in 1..Len(generators) : SpiderYield(g)
    \/ \E g \in 1..Len(generators) : SpiderRaise(g)
    \/ \E g \in 1..Len(generators) : SpiderReturn(g)
    \/ \E g \in 1..Len(generators) : SpiderClose(g)

Spider == SpiderInit /\ [][SpiderNext]_vars

(***************************************************************************)
(* What the frames above mean, written out by hand: the events and         *)
(* payloads the properties below expect                                    *)
(***************************************************************************)
s_result == <<"r", "e", "s", "u", "l", "t">>

\* messages that follow the envelope {"message_type", "data", "timestamp"?}
WellFormedMessages ==
    {PyStr(ws_welcome), PyStr(ws_result), PyStr(ws_summary), PyStr(ws_error),
     PyBytes(ws_summary)}

SummaryMessages == {PyStr(ws_summary), PyBytes(ws_summary)}

\* text messages that are no JSON
MalformedMessages == {PyStr(ws_not_json)}

ExpectedEvent(message) ==
    CASE message = PyStr(ws_welcome) ->
            StreamingResult(PyStr(s_welcome),
                            PyDict(s_session_id :> PyStr(<<"a">>)),
                            PyStr(<<"t", "0">>))
      [] message = PyStr(ws_result) ->
            StreamingResult(PyStr(s_result), PyDict(<<"u", "r", "l">> :> PyInt(1)),
                            PyNone)
      [] message \in SummaryMessages ->
            StreamingResult(PyStr(s_summary), PyDict(EmptyMap), PyNone)
      [] message = PyStr(ws_error) ->
            StreamingResult(PyStr(s_error), PyDict(EmptyMap), PyNone)

ExpectedErrorEvent ==
    StreamingResult(
        PyStr(s_error),
        PyDict((s_error :> PyStr(<<"Invalid JSON received: ", "Expecting value",
                                   ": line ", "1", " column ", "1",
                                   " (char ", "0", ")">>))
               @@ (s_raw :> PyStr(ws_not_json))),
        PyNone)

BlankLines == {line_blank, line_spaces}

BadLines == {line_not_json}

ExpectedPayload(line) ==
    CASE line = line_object -> PyDict(<<"u", "r", "l">> :> PyInt(1))
      [] line = line_padded -> PyDict(<<"a">> :> PyInt(2))
      [] line = line_number -> PyInt(7)

\* one result per line that is not blank, in order
RECURSIVE ExpectedResults(_, _)
ExpectedResults(lines, kind) ==
    IF lines = <<>> THEN <<>>
    ELSE IF Head(lines).s \in BlankLines THEN ExpectedResults(Tail(lines), kind)
    ELSE <<StreamingResult(PyStr(kind), ExpectedPayload(Head(lines).s), PyNone)>>
         \o ExpectedResults(Tail(lines), kind)

ExpectedKind(o) == IF o = "crawl_ndjson" THEN s_crawl_result ELSE s_search_result

\* SSE: the lines of the block that the blank line at position n of h ends
IsBlankLine(line) == strip(line.s) = <<>>

RECURSIVE PrevBlank(_, _)
PrevBlank(h, n) ==
    IF n <= 1 THEN 0
    ELSE IF IsBlankLine(h[n - 1]) THEN n - 1
    ELSE PrevBlank(h, n - 1)

BlockBefore(h, n) == SubSeq(h, PrevBlank(h, n) + 1, n - 1)

\* the stripped values of the lines of a block that begin with prefix
RECURSIVE FieldValues(_, _)
FieldValues(block, prefix) ==
    IF block = <<>> THEN <<>>
    ELSE IF startswith(strip(Head(block).s), prefix)
    THEN <<strip(SliceFrom(strip(Head(block).s), Len(prefix)))>>
         \o FieldValues(Tail(block), prefix)
    ELSE FieldValues(Tail(block), prefix)

LastBlock == BlockBefore(received, Len(received))

LastData == FieldValues(LastBlock, s_data_prefix)

LastEvents == FieldValues(LastBlock, s_event_prefix)

LastYielded == yielded[Len(yielded)]

\* blank lines of h[1..n] that end a block with data
RECURSIVE Committed(_, _)
Committed(h, n) ==
    IF n = 0 THEN 0
    ELSE Committed(h, n - 1)
         + (IF IsBlankLine(h[n])
               /\ FieldValues(BlockBefore(h, n), s_data_prefix) # <<>>
            THEN 1 ELSE 0)

(***************************************************************************)
(* Properties                                                              *)
(***************************************************************************)
CrawlOfWellFormed ==
    /\ op = "crawl_websocket"
    /\ handler_failures = 0
    /\ \A i \in 1..Len(received) : received[i] \in WellFormedMessages

EventsAreMessages ==
    /\ Len(yielded) = Len(received)
    /\ \A i \in 1..Len(received) : yielded[i] = ExpectedEvent(received[i])

\* C1 as stated: on a crawl_websocket connection that delivers well-formed
\* messages the events are the messages in order, and the first message of
\* type summary, wherever it stands, is the last one read and yielded.
C1_AnySummaryEndsTheSequence ==
    CrawlOfWellFormed =>
        /\ EventsAreMessages
        /\ \A i \in 1..Len(received) :
            received[i] \in SummaryMessages =>
                i = Len(received) /\ pc # "recv_loop"

\* C1 amended: the events are the messages in order, and the first message
\* of type summary after the first (welcome) message is the last one read
\* and yielded; a summary in the first position does not end the sequence.
C1_SummaryAfterWelcomeEndsTheSequence ==
    CrawlOfWellFormed =>
        /\ EventsAreMessages
        /\ \A i \in 2..Len(received) :
            received[i] \in SummaryMessages =>
                i = Len(received) /\ pc \in {"yield_result", "exhausted", "closed"}

C1_Witness ==
    /\ CrawlOfWellFormed
    /\ received = <<PyStr(ws_welcome), PyStr(ws_result), PyStr(ws_summary)>>
    /\ Len(yielded) = 3
    /\ pc = "exhausted"

\* C2: in the receive loop of crawl_websocket a text message that is no JSON
\* (json.loads raises JSONDecodeError) does not raise to the caller while
\* on_message does not fail: it yields one error event with the decode
\* failure and the raw text, and a valid message after it is still yielded.
C2_MalformedMessageYieldsErrorEvent ==
    (op = "crawl_websocket" /\ handler_failures = 0) =>
        \A i \in 2..Len(received) :
            received[i] \in MalformedMessages =>
                /\ Len(yielded) >= i
                /\ yielded[i] = ExpectedErrorEvent
                /\ (i < Len(received) /\ received[i + 1] \in WellFormedMessages) =>
                        /\ Len(yielded) >= i + 1
                        /\ yielded[i + 1] = ExpectedEvent(received[i + 1])

C2_Witness ==
    /\ op = "crawl_websocket"
    /\ handler_failures = 0
    /\ received = <<PyStr(ws_welcome), PyStr(ws_not_json), PyStr(ws_result)>>
    /\ Len(yielded) = 3
    /\ yielded[2].event_type = PyStr(s_error)
    /\ yielded[3].event_type = PyStr(s_result)

\* C3: in crawl_ndjson and deepsearch_ndjson the first line that is neither
\* blank nor JSON raises StreamingError; the results of the lines before it
\* were yielded, none is yielded for it, and it is the last line read.
C3_BadLineRaises ==
    op \in NdjsonOps =>
        \A i \in 1..Len(received) :
            received[i].s \in BadLines =>
                /\ i = Len(received)
                /\ pc = "raised"
                /\ raised.type = "StreamingError"
                /\ yielded = ExpectedResults(SubSeq(received, 1, i - 1),
                                             ExpectedKind(op))

C3_Witness ==
    /\ op \in NdjsonOps
    /\ received = <<PyStr(line_object), PyStr(line_not_json)>>
    /\ Len(yielded) = 1
    /\ pc = "raised"

\* C4: crawl_ndjson on a 200 response whose lines are blank or JSON yields
\* one crawl_result per line that is not blank, its payload the decoded
\* line, in order; a blank line yields nothing and raises nothing.
C4_OneResultPerLine ==
    (op = "crawl_ndjson" /\ \A i \in 1..Len(received) : received[i].s \notin BadLines) =>
        /\ yielded = ExpectedResults(received, s_crawl_result)
        /\ (pc = "raised" /\ received # <<>>) =>
                raised.message[1] = "HTTP error during streaming: "

C4_Witness ==
    /\ op = "crawl_ndjson"
    /\ received = <<PyStr(line_object), PyStr(line_blank), PyStr(line_spaces),
                    PyStr(line_padded)>>
    /\ Len(yielded) = 2
    /\ pc = "yielded"

\* C5: with an empty URL list (crawl_ndjson, crawl_sse, crawl_websocket with
\* websockets present) or an empty query (deepsearch_ndjson) nothing is
\* connected, sent, read or yielded, and what is raised is ValidationError.
EmptyInput ==
    \/ op \in {"crawl_ndjson", "crawl_sse"} /\ urls = PyList(<<>>)
    \/ op = "crawl_websocket" /\ urls = PyList(<<>>) /\ WEBSOCKETS_AVAILABLE
    \/ op = "deepsearch_ndjson" /\ query = PyStr(<<>>)

C5_EmptyInputNeverConnects ==
    EmptyInput =>
        /\ connects = <<>>
        /\ conn = "none"
        /\ sent = <<>>
        /\ received = <<>>
        /\ yielded = <<>>
        /\ pc \in {"created", "raised", "closed"}
        /\ pc = "raised" => raised.type = "ValidationError"

C5_Witness ==
    /\ op = "crawl_websocket"
    /\ EmptyInput
    /\ pc = "raised"
    /\ raised.type = "ValidationError"

\* C6: a streaming call that opened a connection closes it exactly once on
\* every way out (exhausted, StreamingError, failing callback, abandoned by
\* the consumer), and nothing is received or sent on it after the close.
C6_ConnectionClosedExactlyOnce ==
    op \in GeneratorOps =>
        /\ closes <= 1
        /\ ~late_io
        /\ conn = "open" => closes = 0 /\ pc \notin Terminal
        /\ conn = "none" => closes = 0
        /\ conn = "closed" => closes = 1 /\ pc \in Terminal
        /\ (pc \in Terminal /\ conn # "none") => conn = "closed"

C6_Witness ==
    /\ op = "crawl_websocket"
    /\ pc = "closed"
    /\ Len(yielded) = 2
    /\ yielded[2].event_type = PyStr(s_result)
    /\ closes = 1
    /\ conn = "closed"

\* the payload and kind crawl_sse owes for the block just ended, data being
\* json.loads of the joined data values
BlockPayloadIs(data, joined) ==
    IF data.ok THEN LastYielded.data = data.val
    ELSE LastYielded.data = PyDict(s_raw :> PyStr(joined))

BlockKindIs ==
    LastEvents # <<>> => LastYielded.event_type = PyStr(LastEvents[Len(LastEvents)])

JoinedIsJson(data) == data.ok

\* C7: in crawl_sse a block with several data lines yields exactly one
\* event; its payload is the JSON decoding of the lines' stripped values
\* joined with a newline in order of arrival, its kind the value of the
\* block's event line.
C7_MultiLineDataIsJoined ==
    (op = "crawl_sse" /\ pc = "yielded") =>
        /\ IsBlankLine(received[Len(received)])
        /\ Len(yielded) = Committed(received, Len(received))
        /\ (Len(LastData) >= 2 /\ JoinedIsJson(loads(join(<<"\n">>, LastData)))) =>
                /\ BlockPayloadIs(loads(join(<<"\n">>, LastData)),
                                  join(<<"\n">>, LastData))
                /\ BlockKindIs

C7_Witness ==
    /\ op = "crawl_sse"
    /\ pc = "yielded"
    /\ received = <<PyStr(sse_event_result), PyStr(sse_data_open),
                    PyStr(sse_data_close), PyStr(sse_blank)>>
    /\ yielded = <<StreamingResult(PyStr(s_result), PyDict(<<"a">> :> PyInt(1)),
                                   PyNone)>>

\* C8 as stated: every event of crawl_sse has as its kind the value of the
\* last event line since the previous blank line, or message if there was
\* none since the previous blank line.
C8_KindIsOfTheBlock ==
    (op = "crawl_sse" /\ pc = "yielded") =>
        LastYielded.event_type =
            PyStr(IF LastEvents # <<>> THEN LastEvents[Len(LastEvents)]
                  ELSE s_message)

\* C9: in crawl_sse a block whose joined data is no JSON does not raise: it
\* yields one event with the block's kind and payload {"raw": joined data},
\* and the blocks after it are still yielded.
C9_NonJsonBlockIsRaw ==
    op = "crawl_sse" =>
        /\ pc = "yielded" =>
            /\ Len(yielded) = Committed(received, Len(received))
            /\ ~JoinedIsJson(loads(join(<<"\n">>, LastData))) =>
                    /\ LastYielded.data = PyDict(s_raw :> PyStr(join(<<"\n">>, LastData)))
                    /\ BlockKindIs
        /\ (pc = "raised" /\ received # <<>>) =>
                raised.message[1] = "HTTP error during SSE streaming: "

C9_Witness ==
    /\ op = "crawl_sse"
    /\ pc = "yielded"
    /\ received = <<PyStr(sse_data_close), PyStr(sse_blank),
                    PyStr(sse_data_number), PyStr(sse_blank)>>
    /\ yielded = <<StreamingResult(PyStr(s_message),
                                   PyDict(s_raw :> PyStr(<<"1", "}">>)), PyNone),
                   StreamingResult(PyStr(s_message), PyInt(7), PyNone)>>

\* C10 as stated: the session_id ping_websocket returns is the session_id of
\* the welcome message of the same connection, whatever the pong holds.
C10_SessionIdIsOfTheWelcome ==
    (op = "ping_websocket" /\ pc = "returned" /\ received[1] = PyStr(ws_welcome)) =>
        returned.kv[s_session_id] = PyStr(<<"a">>)

\* C11 as stated: the latency_ms ping_websocket returns is the time between
\* sending the ping request and receiving the pong (in milliseconds), without
\* the time spent connecting or waiting for the welcome, and is not negative.
C11_LatencyIsSendToPong ==
    (op = "ping_websocket" /\ pc = "returned") =>
        /\ returned.kv[s_latency_ms] = PyInt((end_time - send_time) * 1000)
        /\ returned.kv[s_latency_ms].n >= 0

\* C12: with an on_message handler that does not fail, crawl_websocket hands
\* every event it yields (welcome, decoded messages, inline error events) to
\* the handler exactly once, the same event, in the same order and before
\* the yield: the events handed over are the events yielded; with any
\* handler, an event is yielded only after it was handed over.
C12_HandlerSeesEveryEventOnce ==
    (op = "crawl_websocket" /\ on_message = "callable") =>
        /\ handler_failures = 0 => calls = yielded
        /\ Len(calls) >= Len(yielded)
        /\ \A i \in 1..Len(yielded) :
            \E j \in i..Len(calls) : calls[j] = yielded[i]

C12_Witness ==
    /\ op = "crawl_websocket"
    /\ on_message = "callable"
    /\ handler_failures = 0
    /\ received = <<PyStr(ws_welcome), PyStr(ws_not_json), PyStr(ws_result)>>
    /\ calls = <<ExpectedEvent(PyStr(ws_welcome)), ExpectedErrorEvent,
                 ExpectedEvent(PyStr(ws_result))>>
    /\ yielded = calls

\* C13 as stated: a failure of on_message while it handles an event of
\* crawl_websocket reaches the caller as it was raised: not caught, not
\* turned into an inline error event, not wrapped in StreamingError.
C13_HandlerFailureReachesCallerUnchanged ==
    (op = "crawl_websocket" /\ handler_failures >= 1) =>
        /\ pc = "raised"
        /\ raised \in {HandlerException(outcome) : outcome \in HandlerOutcomes \ {"ok"}}

\* the envelope a crawl_websocket call owes the server
ExpectedCrawlRequest ==
    PyDict((s_request_type :> PyStr(s_crawl)) @@ (s_data :> PyDict(s_urls :> urls)))

CrawlRequestOnlyAfterWelcome ==
    /\ Len(sent) <= 1
    /\ sent # <<>> =>
        /\ sent[1] = ExpectedCrawlRequest
        /\ Len(received) >= 1
        /\ Len(yielded) >= 1

\* C14 as stated: on every connection crawl_websocket opened exactly one
\* crawl request is sent, after the welcome was received, never before it
\* and never twice, also when the consumer abandons the call early.
C14_ExactlyOneCrawlRequest ==
    op = "crawl_websocket" =>
        /\ CrawlRequestOnlyAfterWelcome
        /\ (pc \in Terminal /\ conn = "closed") => Len(sent) = 1

\* C14 amended: at most one crawl request is sent on a connection, never
\* before the first message was received and yielded, never twice; exactly
\* one has been sent once the consumer pulled past the first event and the
\* send succeeded, and none by a call that failed or was abandoned before.
C14_AtMostOneCrawlRequest ==
    op = "crawl_websocket" =>
        /\ CrawlRequestOnlyAfterWelcome
        /\ pc \in {"recv_loop", "yield_result", "yield_error"} => Len(sent) = 1
        /\ Len(received) >= 2 => Len(sent) = 1
        /\ pc \in {"created", "connecting", "await_welcome", "yield_welcome"} =>
                sent = <<>>
        /\ (pc \in Terminal /\ Len(yielded) = 0) => sent = <<>>

C14_Witness ==
    /\ op = "crawl_websocket"
    /\ pc = "closed"
    /\ Len(yielded) = 2
    /\ sent = <<ExpectedCrawlRequest>>

\* C15: of the crawl_websocket, ping_websocket and get_websocket_status calls
\* made on one client instance, in any order and interleaving, each opens
\* one new socket of its own (none before it connects), and no socket is
\* read from or written to by a call other than the one that opened it.
C15_OneSocketPerCall ==
    /\ \A k \in 1..Len(tasks) :
        /\ Cardinality({s \in 1..Len(sockets) : sockets[s].opened_by = k})
                = (IF tasks[k].websocket = 0 THEN 0 ELSE 1)
        /\ tasks[k].websocket # 0 => sockets[tasks[k].websocket].opened_by = k
    /\ \A s \in 1..Len(sockets) :
        /\ sockets[s].used_by \subseteq {sockets[s].opened_by}
        /\ sockets[s].closes <= 1

C15_Witness ==
    /\ Len(tasks) = 2
    /\ Len(sockets) = 2
    /\ tasks[1].op = "crawl_websocket"
    /\ tasks[2].op = "ping_websocket"
    /\ tasks[1].pc = "closed"
    /\ tasks[2].pc = "returned"
    /\ sockets[1].used_by = {1}
    /\ sockets[2].used_by = {2}

\* the StreamingError an error response with this status and body owes
ExpectedStatusError(o, status_code, body) ==
    StreamingError((IF o = "crawl_sse" THEN <<"SSE streaming failed: ">>
                    ELSE <<"Streaming failed: ">>) \o body, PyInt(status_code))

\* C16 as stated: in crawl_ndjson, deepsearch_ndjson and crawl_sse a response
\* whose status is not a success raises StreamingError with that status code
\* and the text of the body, before a line is read or an event yielded.
C16_ErrorStatusRaisesStreamingError ==
    [][(HttpResponse /\ pc' = "raised") =>
          /\ raised' \in {ExpectedStatusError(op, status_code, body) :
                            status_code \in StatusCodes \ {200}, body \in ErrorBodies}
          /\ received' = <<>>
          /\ yielded' = <<>>]_vars

\* a step in which the transport fails: connecting, sending or reading
TransportFails ==
    \/ HttpConnectFails
    \/ HttpErrorBodyFails
    \/ HttpReadFails
    \/ WsConnectFails
    \/ WsSendCrawlFails
    \/ WsClosed /\ pc' = "raised"
    \/ AuxFails

\* C17: in all six entry points a failure the transport raises while
\* connecting, sending or reading (an httpx.HTTPError; any exception of
\* websockets or the socket) reaches the caller as StreamingError only.
C17_TransportFailuresAreStreamingErrors ==
    [][TransportFails => (pc' = "raised" /\ raised'.type = "StreamingError")]_vars

C17_Witness ==
    /\ op = "crawl_sse"
    /\ pc = "raised"
    /\ received = <<PyStr(sse_data_number)>>
    /\ raised = StreamingError(<<"HTTP error during SSE streaming: ", "ReadTimeout">>,
                               PyNone)

\* C18 as stated: every event crawl_ndjson, deepsearch_ndjson, crawl_sse and
\* crawl_websocket yield has a kind that is not empty, whatever frames the
\* server sends.
C18_KindIsNeverEmpty ==
    op \in GeneratorOps =>
        \A i \in 1..Len(yielded) : yielded[i].event_type # PyStr(<<>>)

\* C19 as stated: in crawl_websocket a frame that cannot be decoded, at any
\* position including the first, becomes an event of kind error and never
\* ends the sequence.
C19_UndecodableFrameIsErrorEvent ==
    (op = "crawl_websocket" /\ handler_failures = 0) =>
        \A i \in 1..Len(received) :
            received[i] \in MalformedMessages =>
                /\ Len(yielded) >= i
                /\ yielded[i].event_type = PyStr(s_error)

\* C20: no adapter reads ahead of the consumer. Nothing is connected before
\* the first pull; a generator suspended at a yield receives and sends
\* nothing until it is resumed, and resuming it takes no frame by itself
\* (only the crawl request goes out after the welcome); a step that yields
\* an event yields one and has read one frame, the one that completed it.
C20_NoReadAhead ==
    [][/\ pc = "created" => (connects = <<>> /\ conn = "none" /\ received = <<>>)
       /\ (op \in GeneratorOps /\ pc \in YieldPoints) =>
            /\ received' = received
            /\ connects' = connects
            /\ yielded' = yielded
            /\ sent' # sent => (pc = "yield_welcome" /\ pc' = "recv_loop")
       /\ (op \in GeneratorOps /\ yielded' # yielded) =>
            /\ Len(yielded') = Len(yielded) + 1
            /\ Len(received') = Len(received) + 1
            /\ pc' \in YieldPoints]_vars

C20_Witness ==
    /\ op = "crawl_ndjson"
    /\ pc = "reading"
    /\ received = <<PyStr(line_object), PyStr(line_blank)>>
    /\ Len(yielded) = 1

\* C22: once a sequence of crawl_ndjson, deepsearch_ndjson, crawl_sse or
\* crawl_websocket has ended, normally or by raising, it stays ended: a later
\* pull yields no event, reads no frame, sends nothing and opens no
\* connection; and no step ever takes back an event that was yielded.
C22_FinishedForGood ==
    [][/\ (op \in GeneratorOps /\ pc \in {"exhausted", "raised"}) =>
            /\ pc' = pc
            /\ yielded' = yielded
            /\ received' = received
            /\ sent' = sent
            /\ connects' = connects
            /\ conn' = conn
            /\ raised' = raised
       /\ Len(yielded') >= Len(yielded)
       /\ SubSeq(yielded', 1, Len(yielded)) = yielded]_vars

C22_Witness ==
    /\ op = "crawl_ndjson"
    /\ pc = "raised"
    /\ late_pull
    /\ received = <<PyStr(line_object), PyStr(line_not_json)>>
    /\ Len(yielded) = 1
    /\ Len(connects) = 1

\* the envelope ping_websocket / get_websocket_status owe the server
ExpectedAuxRequest ==
    PyDict((s_request_type :> PyStr(IF op = "ping_websocket" THEN s_ping
                                    ELSE s_status))
           @@ (s_data :> PyDict(EmptyMap)))

\* C23: ping_websocket and get_websocket_status connect once and, on that
\* socket, receive one message, then send one request envelope (ping /
\* status), then receive one reply, then close: never a second send or a
\* third receive, nothing after the close; get_websocket_status returns the
\* data payload of the reply as it was received.
C23_AuxExchange ==
    op \in AuxOps =>
        /\ Len(connects) <= 1
        /\ Len(sent) <= 1
        /\ Len(received) <= 2
        /\ closes <= 1
        /\ ~late_io
        /\ sent # <<>> => (sent[1] = ExpectedAuxRequest /\ Len(received) >= 1)
        /\ Len(received) = 2 => Len(sent) = 1
        /\ pc = "returned" =>
            /\ Len(connects) = 1
            /\ Len(received) = 2
            /\ Len(sent) = 1
            /\ conn = "closed"
            /\ closes = 1
        /\ (pc = "raised" /\ conn # "none") => (conn = "closed" /\ closes = 1)
        /\ (op = "get_websocket_status" /\ pc = "returned"
                /\ received[2] = PyStr(ws_status)) =>
                returned = PyDict(<<"i", "s", "_", "h", "e", "a", "l", "t", "h", "y">>
                                  :> PyBool(TRUE))

C23_Witness ==
    /\ op = "get_websocket_status"
    /\ pc = "returned"
    /\ received = <<PyStr(ws_welcome), PyStr(ws_status)>>
    /\ sent = <<ExpectedAuxRequest>>
    /\ returned = PyDict(<<"i", "s", "_", "h", "e", "a", "l", "t", "h", "y">>
                         :> PyBool(TRUE))
    /\ conn = "closed"

\* the state of a crawl_websocket session at a position of the generator; a
\* sequence the consumer closed has ended without a failure
SessionState(at) ==
    CASE at = "created" -> "Idle"
      [] at = "connecting" -> "Connecting"
      [] at = "await_welcome" -> "AwaitingWelcome"
      [] at \in {"yield_welcome", "recv_loop", "yield_result", "yield_error"} ->
            "Streaming"
      [] at \in {"exhausted", "closed"} -> "Completed"
      [] at = "raised" -> "Failed"

\* the moves of the state machine, a state's successors
SessionMoves(state) ==
    CASE state = "Connecting" -> {"Connecting", "AwaitingWelcome", "Failed"}
      [] state = "AwaitingWelcome" -> {"AwaitingWelcome", "Streaming", "Failed"}
      [] state = "Streaming" -> {"Streaming", "Completed", "Failed"}
      [] state = "Completed" -> {"Completed"}
      [] state = "Failed" -> {"Failed"}

\* C24: once its first pull has passed the checks of the arguments, a
\* crawl_websocket session moves only along Connecting -> AwaitingWelcome
\* -> Streaming -> Completed, or to Failed; a failure of the transport in
\* Connecting, AwaitingWelcome or Streaming leads to Failed; whenever
\* Failed is entered from one of them the caller gets StreamingError; in
\* Completed and Failed nothing more is yielded, sent or received.
C24_SessionStateMachine ==
    [][(op = "crawl_websocket" /\ pc # "created") =>
          /\ SessionState(pc') \in SessionMoves(SessionState(pc))
          /\ (WsConnectFails \/ WsSendCrawlFails
                \/ (WsClosed /\ pc = "await_welcome")) => pc' = "raised"
          /\ WsClosed => pc' \in {"raised", "exhausted"}
          /\ (pc # "raised" /\ pc' = "raised") => raised'.type = "StreamingError"
          /\ pc \in {"exhausted", "raised", "closed"} =>
                /\ yielded' = yielded
                /\ sent' = sent
                /\ received' = received
                /\ raised' = raised]_vars

C24_Witness ==
    /\ op = "crawl_websocket"
    /\ pc = "raised"
    /\ late_pull
    /\ Len(received) = 2
    /\ Len(yielded) = 2
    /\ sent = <<ExpectedCrawlRequest>>
    /\ raised = StreamingError(<<"WebSocket error: ", "no close frame received">>,
                               PyNone)

\* the payload owed for a block's joined data, data being its json.loads
PayloadOf(joined, data) ==
    IF data.ok THEN data.val ELSE PyDict(s_raw :> PyStr(joined))

\* the payloads of the blocks with data that the blank lines of h[1..n] end,
\* in the order of the blocks
RECURSIVE CommittedPayloads(_, _)
CommittedPayloads(h, n) ==
    IF n = 0 THEN <<>>
    ELSE IF IsBlankLine(h[n]) /\ FieldValues(BlockBefore(h, n), s_data_prefix) # <<>>
    THEN Append(CommittedPayloads(h, n - 1),
                PayloadOf(join(<<"\n">>, FieldValues(BlockBefore(h, n), s_data_prefix)),
                          loads(join(<<"\n">>,
                                     FieldValues(BlockBefore(h, n), s_data_prefix)))))
    ELSE CommittedPayloads(h, n - 1)

\* a line that is not blank and neither an event line nor a data line
IsOtherLine(line) ==
    /\ ~IsBlankLine(line)
    /\ ~startswith(strip(line.s), s_event_prefix)
    /\ ~startswith(strip(line.s), s_data_prefix)

\* C25: crawl_sse yields one event for every block that a blank line ends
\* and that holds a data line, in the order of the blocks and with the
\* block's payload, and no other event: a blank line with no pending data
\* yields nothing, and a line that is neither an event line nor a data line
\* yields nothing and leaves the pending kind and data as they are.
C25_OneEventPerDataBlock ==
    /\ [](op = "crawl_sse" =>
            /\ Len(yielded) = Committed(received, Len(received))
            /\ [i \in 1..Len(yielded) |-> yielded[i].data]
                    = CommittedPayloads(received, Len(received)))
    /\ [][(op = "crawl_sse" /\ Len(received') = Len(received) + 1
            /\ IsOtherLine(received'[Len(received')])) =>
                /\ yielded' = yielded
                /\ event_type' = event_type
                /\ event_data' = event_data
                /\ pc' = pc]_vars

C25_Witness ==
    /\ op = "crawl_sse"
    /\ pc = "reading"
    /\ received = <<PyStr(sse_data_number), PyStr(sse_comment), PyStr(sse_blank),
                    PyStr(sse_blank)>>
    /\ yielded = <<StreamingResult(PyStr(s_message), PyInt(7), PyNone)>>

\* the data values of the lines after the last blank line
PendingData ==
    FieldValues(BlockBefore(received, Len(received) + 1), s_data_prefix)

\* C26: when the body of a crawl_sse response ends while a block is pending
\* (data lines received, no blank line after them), the sequence ends
\* normally and no event is yielded for that block: the events are those of
\* the blocks that a blank line ended.
C26_PendingBlockIsDropped ==
    (op = "crawl_sse" /\ pc = "exhausted" /\ PendingData # <<>>) =>
        /\ raised = NoException
        /\ conn = "closed"
        /\ Len(yielded) = Committed(received, Len(received))
        /\ [i \in 1..Len(yielded) |-> yielded[i].data]
                = CommittedPayloads(received, Len(received))

C26_Witness ==
    /\ op = "crawl_sse"
    /\ pc = "exhausted"
    /\ received = <<PyStr(sse_data_close), PyStr(sse_blank), PyStr(sse_event_result),
                    PyStr(sse_data_number)>>
    /\ Len(yielded) = 1
    /\ raised = NoException

\* what the caller would get if a normal closure (close code 1000) raised
CleanCloseError ==
    StreamingError(<<"WebSocket error: ", "received 1000 (OK)">>, PyNone)

ObjectMessages == WellFormedMessages \cup {PyStr(ws_untyped)}

\* the event owed for a JSON object received first
ExpectedFirstEvent(message) ==
    IF message = PyStr(ws_untyped)
    THEN StreamingResult(PyStr(s_welcome), PyDict(EmptyMap), PyNone)
    ELSE ExpectedEvent(message)

\* C28: crawl_websocket does not check the type of the first message: a JSON
\* object of any message_type (summary and error included) is yielded as
\* the first event, with kind welcome if it has no message_type, and does
\* not end the sequence; the pull after it, unless the send fails, sends the
\* crawl request and enters the receive loop.
C28_FirstMessageIsNotChecked ==
    /\ []((op = "crawl_websocket" /\ handler_failures = 0 /\ received # <<>>
            /\ received[1] \in ObjectMessages) =>
                /\ Len(yielded) >= 1
                /\ yielded[1] = ExpectedFirstEvent(received[1])
                /\ Len(received) = 1 => pc \in {"yield_welcome", "recv_loop", "raised",
                                                "closed", "exhausted"}
                /\ (Len(received) = 1 /\ pc = "exhausted") => Len(sent) = 1)
    /\ [][(op = "crawl_websocket" /\ pc = "yield_welcome"
            /\ pc' \notin {"yield_welcome", "closed", "raised"}) =>
                /\ pc' = "recv_loop"
                /\ sent' = <<ExpectedCrawlRequest>>
                /\ received' = received
                /\ yielded' = yielded]_vars

C28_Witness ==
    /\ op = "crawl_websocket"
    /\ pc = "yield_result"
    /\ received = <<PyStr(ws_summary), PyStr(ws_untyped), PyStr(ws_result)>>
    /\ yielded = <<ExpectedEvent(PyStr(ws_summary)),
                   StreamingResult(PyStr(s_message), PyDict(EmptyMap), PyNone),
                   ExpectedEvent(PyStr(ws_result))>>
    /\ sent = <<ExpectedCrawlRequest>>

\* messages that are JSON but no object, or bytes that are no UTF-8
UnusableMessages == {PyStr(ws_array), PyBytes(<<"0xFF">>)}

\* C29: in the receive loop of crawl_websocket a message that is JSON but no
\* object, or a binary message that is no UTF-8, yields no error event: it
\* is the last message read, the call raises StreamingError, and the events
\* are those of the messages before it.
C29_UnusableMessageAborts ==
    op = "crawl_websocket" =>
        \A i \in 2..Len(received) :
            received[i] \in UnusableMessages =>
                /\ i = Len(received)
                /\ pc = "raised"
                /\ raised.type = "StreamingError"
                /\ raised.message[1] = "Unexpected error during WebSocket streaming: "
                /\ Len(yielded) = i - 1

C29_Witness ==
    /\ op = "crawl_websocket"
    /\ pc = "raised"
    /\ received = <<PyStr(ws_welcome), PyStr(ws_result), PyBytes(<<"0xFF">>)>>
    /\ yielded = <<ExpectedEvent(PyStr(ws_welcome)), ExpectedEvent(PyStr(ws_result))>>
    /\ raised = StreamingError(<<"Unexpected error during WebSocket streaming: ",
                                 "invalid start byte">>, PyNone)

\* a generator that was started and has finished, or was never started
SpiderFinished(gen) == gen.pc \in {"created", "exhausted", "failed", "closed"}

\* C30 as stated: once every spider_stream generator started on a client has
\* finished (exhausted, failed or closed), in any interleaving of the steps
\* of overlapping generators, the session headers are the headers the
\* client had before the first generator started.
C30_HeadersRestored ==
    (\A g \in 1..Len(generators) : SpiderFinished(generators[g])) =>
        session_headers = SessionHeaders

\* what a call yields when it runs alone and receives h: the body of the
\* entry point applied to h[i], h[i + 1], ... with local variables that
\* nothing else touches; r is the effect of h[i]
RECURSIVE AloneSse(_, _, _, _)
AloneSseFrom(h, i, r) ==
    IF r.step.do = "yield"
    THEN <<r.step.result>> \o AloneSse(h, i + 1, s_message, <<>>)
    ELSE AloneSse(h, i + 1, r.event_type, r.event_data)

AloneSse(h, i, kind, data_lines) ==
    IF i > Len(h) THEN <<>>
    ELSE AloneSseFrom(h, i, SseLine(h[i].s, kind, data_lines))

RECURSIVE AloneNdjson(_, _)
AloneNdjsonFrom(h, i, step) ==
    IF step.do = "raise" THEN <<>>
    ELSE IF step.do = "yield" THEN <<step.result>> \o AloneNdjson(h, i + 1)
    ELSE AloneNdjson(h, i + 1)

AloneNdjson(h, i) ==
    IF i > Len(h) THEN <<>>
    ELSE AloneNdjsonFrom(h, i, NdjsonLine(h[i].s, "crawl_ndjson"))

RECURSIVE AloneWebsocket(_, _)
AloneWebsocketFrom(h, i, step) ==
    IF step.do = "raise" THEN <<>>
    ELSE <<step.result>> \o AloneWebsocket(h, i + 1)

AloneWebsocket(h, i) ==
    IF i > Len(h) THEN <<>>
    ELSE AloneWebsocketFrom(h, i, IF i = 1 THEN WelcomeStep(h[i], "None", "ok")
                                  ELSE LoopStep(h[i], "None", "ok", "ok"))

Alone(o, h) ==
    CASE o = "crawl_sse" -> AloneSse(h, 1, s_message, <<>>)
      [] o = "crawl_ndjson" -> AloneNdjson(h, 1)
      [] o = "crawl_websocket" -> AloneWebsocket(h, 1)

\* the step is not one of call k: k has read nothing and stands where it stood
Idle(k) ==
    /\ k <= Len(streams)
    /\ streams'[k].received = streams[k].received
    /\ streams'[k].pc = streams[k].pc

\* C21: of the streaming calls made on one client instance and consumed in
\* any interleaving, each yields the events it would yield alone for the
\* frames of its own connection; and a step of one call leaves what another
\* call received and yielded, its position and its pending SSE type and
\* data as they were.
C21_CallsDoNotInterfere ==
    /\ [](\A k \in 1..Len(streams) :
            streams[k].yielded = Alone(streams[k].op, streams[k].received))
    /\ [][\A k \in 1..Len(streams) :
            Idle(k) => (streams'[k] = streams[k] /\ frames'[k] = frames[k])]_vars

C21_Witness ==
    /\ Len(streams) = 2
    /\ streams[1].op = "crawl_sse"
    /\ streams[1].pc = "reading"
    /\ streams[1].received = <<PyStr(sse_event_result)>>
    /\ frames[1] = Locals(s_result, <<>>)
    /\ streams[2].op = "crawl_sse"
    /\ streams[2].pc = "yielded"
    /\ streams[2].received = <<PyStr(sse_data_number), PyStr(sse_blank)>>
    /\ streams[2].yielded = <<StreamingResult(PyStr(s_message), PyInt(7), PyNone)>>

====
